---- MODULE Spec2Model ----
(***************************************************************************)
(* Domain expiry exporter: the monitoring loop (StartMonitoring), the      *)
(* serial check pass (checkAllDomains / checkDomain), the configuration    *)
(* consumer (watchConfigUpdates), the Nacos configuration manager          *)
(* (loadConfigFromNacos / watchConfig OnChange), TriggerCheck, Stop and    *)
(* the metrics collection (Collect).                                       *)
(***************************************************************************)
EXTENDS Integers, Sequences, FiniteSets, TLC

(***************************************************************************)
(* Bounds of the model.                                                    *)
(***************************************************************************)
\* number of change notifications the configuration source delivers
MaxUpdates == 1
\* number of TriggerCheck calls (POST /trigger)
MaxTriggers == 2

(***************************************************************************)
(* Program constants.                                                      *)
(***************************************************************************)
DefaultCheckInterval == 3600
DefaultTimeout == 30
FailureDays == -999
TriggerChanCap == 1
UpdateChanCap == 1
SecondsPerDay == 86400

\* the instant of the run (time.Now().Unix()); time does not advance in the model
Now == 1000000

Domains == {"a.com", "b.org", "c.net"}

NoSeries == << >>

(***************************************************************************)
(* Config values.  A Config is immutable once built; the program shares    *)
(* pointers to it, which the model represents by the record value.         *)
(***************************************************************************)
LocalConfig ==
    [Domains |-> <<"a.com", "b.org">>, CheckInterval |-> DefaultCheckInterval,
     Timeout |-> DefaultTimeout, NacosUrl |-> "http://nacos:8848"]

\* Payloads as yaml.Unmarshal leaves them: a field the payload does not set is zero.
ValidPayloads ==
    { [Domains |-> <<"a.com">>, CheckInterval |-> 60, Timeout |-> 10, NacosUrl |-> ""],
      [Domains |-> <<"a.com", "b.org">>, CheckInterval |-> 0, Timeout |-> 0,
       NacosUrl |-> "http://evil:1"] }

applyDefaults(c) ==
    [c EXCEPT !.CheckInterval = IF @ = 0 THEN DefaultCheckInterval ELSE @,
              !.Timeout = IF @ = 0 THEN DefaultTimeout ELSE @]

\* the Config built from a payload: connection parameters kept, defaults applied
BuildConfig(payload, cur) ==
    applyDefaults([payload EXCEPT !.NacosUrl = cur.NacosUrl])

Range(s) == { s[k] : k \in 1..Len(s) }

VARIABLES
    config,            \* DomainExporter.config
    initialCheckDone,  \* DomainExporter.initialCheckDone
    triggerChan,       \* number of signals buffered in DomainExporter.triggerChan
    stopChan,          \* "open" | "closed"
    mconfig,           \* NacosConfigManager.config
    updateChan,        \* contents of NacosConfigManager.updateChan
    updateClosed,      \* updateChan has been closed
    domainExpiryDays,  \* the four GaugeVecs: domain -> <<>> (no series) or <<value>>
    domainExpiryTime,
    domainCheckTime,
    domainStatus,
    mon,               \* the StartMonitoring goroutine
    ticker,            \* the time.Ticker of StartMonitoring
    watcher,           \* the watchConfigUpdates goroutine
    nacos,             \* the OnChange callback of watchConfig
    stopper,           \* the goroutine of main that calls Stop
    collected,         \* what the last Collect delivered
    panicked,          \* a goroutine panicked: the process is gone
    nUpdates,          \* change notifications delivered so far
    nTriggers,         \* TriggerCheck calls so far
    passChecked,       \* history: domains whose checkDomain returned in the current pass
    bursts,            \* history: groups of trigger signals issued with no trigger pass started in between
    unserved,          \* history: trigger signals issued since the loop last took one (capped at 2)
    served,            \* history: value of unserved when the loop last took a trigger
    trigPasses,        \* history: passes started from the trigger channel
    lastResult,        \* history: domain -> "none" | "checking" | "ok" | "fail": the outcome of
                       \* its last checkDomain, "none" once its series have been deleted
    retracted,         \* history: domains dropped by a processed update and not configured since
    hadSuccess,        \* history: domains with a successful check recorded and not deleted since
    lateChange,        \* history (kept by OnChangeSwapLate): OnChange accepted another domain
                       \* list after the startup pass and no pass has started over it since
    draft,             \* earlier draft: the goroutine running the concurrent checkAllDomains
    workers,           \* earlier draft: the goroutines checkAllDomains starts, one per list entry
    semaphore,         \* earlier draft: number of slots taken in the semaphore channel
    wg,                \* earlier draft: the WaitGroup counter
    resolver,          \* a call of GetDomainInfoWithFallback / GetDomainInfoWithSmartFallback
    queries,           \* history: the WHOIS queries the call has made, in order
    extractor,         \* a call of parseDomainInfo / DomainChecker.getDomainExpiryDate
    loader,            \* NewNacosConfigManager and, history, the failing answers of the source
    loadcfg,           \* LoadConfig and the payloads applied to its result, step by step
    dates,             \* a timestamp written in a layout and read back by an extractor
    locks,             \* the two RWMutexes and the goroutines that take them, lock by lock
    lookup,            \* calls of GetDomainInfo: the caller and the query goroutines
    listcmp            \* a call of checkDomainsChanged: its two lists and what it returned

vars == << config, initialCheckDone, triggerChan, stopChan, mconfig, updateChan,
           updateClosed, domainExpiryDays, domainExpiryTime, domainCheckTime,
           domainStatus, mon, ticker, watcher, nacos, stopper, collected, panicked,
           nUpdates, nTriggers, passChecked, bursts, unserved, served, trigPasses,
           lastResult, retracted, hadSuccess, lateChange, draft, workers, semaphore, wg,
           resolver, queries, extractor, loader, loadcfg, dates, locks, lookup, listcmp >>

NoConfig == [Domains |-> << >>, CheckInterval |-> 0, Timeout |-> 0, NacosUrl |-> ""]

\* what GetDomainInfoWithFallback returns: an error, or a DomainInfo with its ExpiryDate
WhoisFailure == [ok |-> FALSE, ExpiryDate |-> 0]
WhoisResults ==
    { WhoisFailure, [ok |-> TRUE, ExpiryDate |-> Now + 10 * SecondsPerDay + 3600] }

\* int(time.Until(ExpiryDate).Hours() / 24): truncation toward zero
DaysUntil(expiry) ==
    IF expiry >= Now THEN (expiry - Now) \div SecondsPerDay
    ELSE 0 - ((Now - expiry) \div SecondsPerDay)

trigHist == << bursts, unserved, served, trigPasses >>
cfgHist == << retracted, hadSuccess, lateChange >>
passHist == << passChecked, lastResult >>
draftvars == << draft, workers, semaphore, wg >>
\* the variables of the later sections
auxcalls == << loadcfg, dates, locks, lookup, listcmp >>
callvars == << resolver, queries, extractor, loader, auxcalls >>
chans == << triggerChan, stopChan, updateChan, updateClosed >>
metrics == << domainExpiryDays, domainExpiryTime, domainCheckTime, domainStatus >>


(***************************************************************************)
(* Init: the state when NewDomainExporter has returned and main is about   *)
(* to start StartMonitoring.  NewNacosConfigManager has run                *)
(* loadConfigFromNacos once: it failed (local configuration kept, nothing  *)
(* sent) or it loaded a payload (and sent it on updateChan).               *)
(***************************************************************************)
InitialConfigs ==
    { <<LocalConfig, << >> >> } \cup
    { << BuildConfig(p, LocalConfig), << BuildConfig(p, LocalConfig) >> >> : p \in ValidPayloads }

\* the monitoring goroutine about to run StartMonitoring
MonitorStart ==
    [pc |-> "start", kind |-> "none", cfg |-> NoConfig, i |-> 0,
     info |-> WhoisFailure, currentInterval |-> 0]

\* the fields of the exporter and of the configuration manager, the histories empty
InitFields ==
    /\ updateClosed = FALSE
    /\ initialCheckDone = FALSE
    /\ triggerChan = 0
    /\ stopChan = "open"
    /\ domainExpiryDays = [d \in Domains |-> NoSeries]
    /\ domainExpiryTime = [d \in Domains |-> NoSeries]
    /\ domainCheckTime = [d \in Domains |-> NoSeries]
    /\ domainStatus = [d \in Domains |-> NoSeries]
    /\ ticker = [running |-> FALSE, period |-> 0, C |-> 0, retimed |-> FALSE]
    /\ watcher = [pc |-> "idle", newConfig |-> NoConfig, oldConfig |-> NoConfig,
                  initialCheckDone |-> FALSE]
    /\ stopper = "waiting"
    /\ collected = [days |-> [d \in Domains |-> NoSeries], expiry |-> [d \in Domains |-> NoSeries],
                    check |-> [d \in Domains |-> NoSeries], status |-> [d \in Domains |-> NoSeries],
                    retracted |-> {}]
    /\ panicked = FALSE
    /\ nUpdates = 0
    /\ nTriggers = 0
    /\ passChecked = << >>
    /\ bursts = 0
    /\ unserved = 0
    /\ served = 0
    /\ trigPasses = 0
    /\ lastResult = [d \in Domains |-> "none"]
    /\ retracted = {}
    /\ hadSuccess = {}
    /\ lateChange = FALSE

\* NewDomainExporter and NewNacosConfigManager: everything but the configuration
InitExporter ==
    /\ InitFields
    /\ mon = MonitorStart
    /\ nacos = [pc |-> "idle", newConfig |-> NoConfig]

\* the concurrent draft of checkAllDomains is not part of the run
InitDraftOff ==
    /\ draft = [pc |-> "off", Domains |-> << >>, MaxConcurrent |-> 0, next |-> 0]
    /\ workers = << >>
    /\ semaphore = 0
    /\ wg = 0

\* no error (nil), and the result of a call that has not returned
NoErr == [kind |-> "none", server |-> "", n |-> 0]
NoResult == [ok |-> FALSE, msg |-> "", method |-> << >>, cause |-> NoErr]

\* the locals of a resolver call before the call
ResolverOff ==
    [pc |-> "off", fn |-> "none", domain |-> << >>, servers |-> << >>,
     list |-> << >>, stage |-> "none", i |-> 0, attempt |-> 0,
     lastErr |-> NoErr, backupErr |-> NoErr, result |-> NoResult]

\* what an extraction returns when it finds no date (an error), and the locals of an
\* extraction before the call; via is history: the path that produced the result
NotFound == [ok |-> FALSE, ExpiryDate |-> 0, Method |-> ""]
ExtractorOff ==
    [pc |-> "off", fn |-> "none", domain |-> "", lines |-> << >>,
     structured |-> [kind |-> "empty", year |-> 0], i |-> 0,
     result |-> NotFound, via |-> "none"]

\* the configuration manager is constructed; failures and held are history: the number
\* of failing answers of the external source handled by OnChange, and the
\* configuration held when the last of them arrived
LoaderOff == [pc |-> "watching", startup |-> "none", failures |-> 0, held |-> NoConfig]

\* LoadConfig is not followed
LoadCfgOff == [pc |-> "off"]

\* no timestamp is followed through an extractor
DatesOff == [pc |-> "off"]

\* the goroutines are not followed lock by lock
LocksOff == [pc |-> "off"]

\* no call of GetDomainInfo is followed
LookupOff == [pc |-> "off"]

\* no call of checkDomainsChanged is followed
ListCmpOff == [pc |-> "off"]

\* the later sections are not part of the run
InitAuxOff ==
    /\ loadcfg = LoadCfgOff
    /\ dates = DatesOff
    /\ locks = LocksOff
    /\ lookup = LookupOff
    /\ listcmp = ListCmpOff

\* no function is followed call by call
InitCallsOff ==
    /\ resolver = ResolverOff
    /\ queries = << >>
    /\ extractor = ExtractorOff
    /\ loader = LoaderOff
    /\ InitAuxOff

Init ==
    /\ \E ic \in InitialConfigs :
          /\ mconfig = ic[1]
          /\ config = ic[1]
          /\ updateChan = ic[2]
    /\ InitExporter
    /\ InitDraftOff
    /\ InitCallsOff

(***************************************************************************)
(* The monitoring goroutine: StartMonitoring, checkAllDomains (serial),    *)
(* checkDomain.                                                            *)
(***************************************************************************)
\* getCurrentConfig: the pointer read under the read lock
getCurrentConfig == config

\* the domain checkDomain is working on
CurDomain == mon.cfg.Domains[mon.i]

\* StartMonitoring is entered and calls checkAllDomains for the cold start
StartMonitoring ==
    /\ ~panicked
    /\ mon.pc = "start"
    /\ mon' = [mon EXCEPT !.pc = "cad_cfg", !.kind = "initial"]
    /\ UNCHANGED << config, initialCheckDone, mconfig, chans, metrics, ticker, watcher,
                    nacos, stopper, collected, panicked, nUpdates, nTriggers,
                    trigHist, cfgHist, passHist, draftvars, callvars >>

\* checkAllDomains: currentConfig := e.getCurrentConfig(); the range loop starts
checkAllDomainsBegin ==
    /\ ~panicked
    /\ mon.pc = "cad_cfg"
    /\ mon' = [mon EXCEPT !.cfg = getCurrentConfig, !.i = 1,
                          !.pc = IF Len(getCurrentConfig.Domains) = 0
                                 THEN "cad_done" ELSE "cd_time"]
    /\ passChecked' = << >>
    /\ lateChange' = (lateChange /\ getCurrentConfig.Domains # mconfig.Domains)
    /\ UNCHANGED << config, initialCheckDone, mconfig, chans, metrics, ticker, watcher,
                    nacos, stopper, collected, panicked, nUpdates, nTriggers,
                    trigHist, retracted, hadSuccess, lastResult, draftvars, callvars >>

\* checkDomain: e.domainCheckTime.WithLabelValues(domain).Set(now.Unix())
checkDomainTime ==
    /\ ~panicked
    /\ mon.pc = "cd_time"
    /\ domainCheckTime' = [domainCheckTime EXCEPT ![CurDomain] = << Now >>]
    /\ mon' = [mon EXCEPT !.pc = "cd_whois"]
    /\ lastResult' = [lastResult EXCEPT ![CurDomain] = "checking"]
    /\ UNCHANGED << config, initialCheckDone, mconfig, chans, domainExpiryDays,
                    domainExpiryTime, domainStatus, ticker, watcher,
                    nacos, stopper, collected, panicked, nUpdates, nTriggers,
                    trigHist, cfgHist, passChecked, draftvars, callvars >>

\* checkDomain: GetDomainInfoWithFallback(domain, timeout, currentConfig) returns
checkDomainWhois ==
    /\ ~panicked
    /\ mon.pc = "cd_whois"
    /\ \E r \in WhoisResults :
          mon' = [mon EXCEPT !.info = r, !.pc = "cd_status"]
    /\ UNCHANGED << config, initialCheckDone, mconfig, chans, metrics, ticker, watcher,
                    nacos, stopper, collected, panicked, nUpdates, nTriggers,
                    trigHist, cfgHist, passHist, draftvars, callvars >>

\* checkDomain: e.domainStatus.WithLabelValues(domain).Set(0 or 1)
checkDomainStatus ==
    /\ ~panicked
    /\ mon.pc = "cd_status"
    /\ domainStatus' = [domainStatus EXCEPT ![CurDomain] =
                            IF mon.info.ok THEN << 1 >> ELSE << 0 >>]
    /\ mon' = [mon EXCEPT !.pc = "cd_days"]
    /\ UNCHANGED << config, initialCheckDone, mconfig, chans, domainExpiryDays,
                    domainExpiryTime, domainCheckTime, ticker, watcher,
                    nacos, stopper, collected, panicked, nUpdates, nTriggers,
                    trigHist, cfgHist, passHist, draftvars, callvars >>

\* the earlier draft of the failure branch: the days series is left as it was
FailedDaysSeriesKept(old) == old
\* failure branch of checkDomain: e.domainExpiryDays...Set(-999)
FailedDaysSeries(old) == << FailureDays >>

\* checkDomain: e.domainExpiryDays.WithLabelValues(domain).Set(...)
checkDomainDays ==
    /\ ~panicked
    /\ mon.pc = "cd_days"
    /\ domainExpiryDays' = [domainExpiryDays EXCEPT ![CurDomain] =
                                IF mon.info.ok THEN << DaysUntil(mon.info.ExpiryDate) >>
                                ELSE FailedDaysSeries(@)]
    /\ mon' = [mon EXCEPT !.pc = "cd_exp"]
    /\ UNCHANGED << config, initialCheckDone, mconfig, chans, domainStatus,
                    domainExpiryTime, domainCheckTime, ticker, watcher,
                    nacos, stopper, collected, panicked, nUpdates, nTriggers,
                    trigHist, cfgHist, passHist, draftvars, callvars >>

\* a pass that pauses after every domain, the last one included
AfterDomainPauseAlways(i, n, ok) == "sleep"
\* a pass that gives up at the first failed domain
AfterDomainAbortOnFailure(i, n, ok) ==
    IF ok /\ i < n THEN "sleep" ELSE "cad_done"
\* the range loop of checkAllDomains after checkDomain returned: sleep before the
\* next domain, or leave the loop after the last one
AfterDomain(i, n, ok) ==
    IF i < n THEN "sleep" ELSE "cad_done"

\* checkDomain: e.domainExpiryTime.WithLabelValues(domain).Set(...), and return
checkDomainExpiry ==
    /\ ~panicked
    /\ mon.pc = "cd_exp"
    /\ domainExpiryTime' = [domainExpiryTime EXCEPT ![CurDomain] =
                                IF mon.info.ok THEN << mon.info.ExpiryDate >> ELSE << 0 >>]
    /\ mon' = [mon EXCEPT !.pc = AfterDomain(mon.i, Len(mon.cfg.Domains), mon.info.ok)]
    /\ passChecked' = Append(passChecked, CurDomain)
    /\ IF lastResult[CurDomain] = "checking"
       THEN /\ lastResult' = [lastResult EXCEPT ![CurDomain] =
                                  IF mon.info.ok THEN "ok" ELSE "fail"]
            /\ hadSuccess' = IF mon.info.ok THEN hadSuccess \cup {CurDomain} ELSE hadSuccess
       ELSE UNCHANGED << lastResult, hadSuccess >>
    /\ UNCHANGED << config, initialCheckDone, mconfig, chans, domainStatus,
                    domainExpiryDays, domainCheckTime, ticker, watcher,
                    nacos, stopper, collected, panicked, nUpdates, nTriggers,
                    trigHist, retracted, lateChange, draftvars, callvars >>

\* checkAllDomains: time.Sleep(time.Second * 1) between two domains
checkAllDomainsSleep ==
    /\ ~panicked
    /\ mon.pc = "sleep"
    /\ mon' = [mon EXCEPT !.i = @ + 1, !.pc = "cd_time"]
    /\ UNCHANGED << config, initialCheckDone, mconfig, chans, metrics, ticker, watcher,
                    nacos, stopper, collected, panicked, nUpdates, nTriggers,
                    trigHist, cfgHist, passHist, draftvars, callvars >>

\* ticker.Reset(d): the period changes.  A tick already buffered in ticker.C stays
\* there with the timer implementation before Go 1.23 and is discarded with the
\* later one; the repository does not pin which one the build uses.
TickerReset(t, d) ==
    { [t EXCEPT !.period = d], [t EXCEPT !.period = d, !.C = 0] }

\* StartMonitoring after the cold-start pass: e.initialCheckDone = true
AfterInitialPass ==
    /\ ~panicked
    /\ mon.pc = "cad_done" /\ mon.kind = "initial"
    /\ initialCheckDone' = TRUE
    /\ mon' = [mon EXCEPT !.pc = "new_ticker"]
    /\ UNCHANGED << config, mconfig, chans, metrics, ticker, watcher,
                    nacos, stopper, collected, panicked, nUpdates, nTriggers,
                    trigHist, cfgHist, passHist, draftvars, callvars >>

\* StartMonitoring: currentInterval := getCurrentConfig().CheckInterval; time.NewTicker
NewTicker ==
    /\ ~panicked
    /\ mon.pc = "new_ticker"
    /\ mon' = [mon EXCEPT !.currentInterval = getCurrentConfig.CheckInterval, !.pc = "select"]
    /\ ticker' = [running |-> TRUE, period |-> getCurrentConfig.CheckInterval, C |-> 0,
                  retimed |-> FALSE]
    /\ UNCHANGED << config, initialCheckDone, mconfig, chans, metrics, watcher,
                    nacos, stopper, collected, panicked, nUpdates, nTriggers,
                    trigHist, cfgHist, passHist, draftvars, callvars >>

\* the channels are received from whether or not a pass is running
AtSelectOrInPass(pc) == pc \in {"select", "cd_whois", "sleep"}
\* the loop of StartMonitoring is blocked in its select statement
AtSelect(pc) == pc = "select"

\* the runtime delivers a tick on ticker.C (dropped when one is already buffered)
Tick ==
    /\ ~panicked
    /\ ticker.running /\ ticker.C = 0
    /\ ticker' = [ticker EXCEPT !.C = 1]
    /\ UNCHANGED << config, initialCheckDone, mconfig, chans, metrics, mon, watcher,
                    nacos, stopper, collected, panicked, nUpdates, nTriggers,
                    trigHist, cfgHist, passHist, draftvars, callvars >>

\* select: case <-ticker.C
SelectTick ==
    /\ ~panicked
    /\ AtSelect(mon.pc)
    /\ ticker.C = 1
    /\ ticker' = [ticker EXCEPT !.C = 0, !.retimed = FALSE]
    /\ mon' = [mon EXCEPT !.pc = "cad_cfg", !.kind = "tick"]
    /\ UNCHANGED << config, initialCheckDone, mconfig, chans, metrics, watcher,
                    nacos, stopper, collected, panicked, nUpdates, nTriggers,
                    trigHist, cfgHist, passHist, draftvars, callvars >>

\* select: case <-e.triggerChan
SelectTrigger ==
    /\ ~panicked
    /\ AtSelect(mon.pc)
    /\ triggerChan > 0
    /\ triggerChan' = triggerChan - 1
    /\ mon' = [mon EXCEPT !.pc = "cad_cfg", !.kind = "trigger"]
    /\ ticker' = [ticker EXCEPT !.retimed = FALSE]
    /\ trigPasses' = trigPasses + 1
    /\ served' = unserved
    /\ unserved' = 0
    /\ UNCHANGED << config, initialCheckDone, mconfig, stopChan, updateChan, updateClosed,
                    metrics, watcher, nacos, stopper, collected, panicked,
                    nUpdates, nTriggers, bursts, cfgHist, passHist, draftvars, callvars >>

\* select: case <-e.stopChan: return (defer ticker.Stop())
SelectStop ==
    /\ ~panicked
    /\ AtSelect(mon.pc)
    /\ stopChan = "closed"
    /\ mon' = [mon EXCEPT !.pc = "returned"]
    /\ ticker' = [ticker EXCEPT !.running = FALSE, !.retimed = FALSE]
    /\ UNCHANGED << config, initialCheckDone, mconfig, chans, metrics, watcher,
                    nacos, stopper, collected, panicked, nUpdates, nTriggers,
                    trigHist, cfgHist, passHist, draftvars, callvars >>

\* a tick case that never looks at the interval again (the earlier draft)
IntervalNeverChanged(newInterval, currentInterval) == FALSE
\* if newInterval != currentInterval
IntervalChanged(newInterval, currentInterval) == newInterval # currentInterval

\* tick case after checkAllDomains: the ticker is reset only when the interval changed
\* (ticker.retimed is history: the tick case reset the ticker on the way to the select
\* the loop is in; it is cleared when the loop leaves the select)
AfterTickPass ==
    /\ ~panicked
    /\ mon.pc = "cad_done" /\ mon.kind = "tick"
    /\ LET newInterval == getCurrentConfig.CheckInterval IN
         IF IntervalChanged(newInterval, mon.currentInterval)
         THEN /\ mon' = [mon EXCEPT !.currentInterval = newInterval, !.pc = "select"]
              /\ ticker' \in { [t EXCEPT !.retimed = TRUE] :
                                  t \in TickerReset(ticker, newInterval) }
         ELSE /\ mon' = [mon EXCEPT !.pc = "select"]
              /\ ticker' = ticker
    /\ UNCHANGED << config, initialCheckDone, mconfig, chans, metrics, watcher,
                    nacos, stopper, collected, panicked, nUpdates, nTriggers,
                    trigHist, cfgHist, passHist, draftvars, callvars >>

\* trigger case after checkAllDomains: the ticker is always reset
AfterTriggerPass ==
    /\ ~panicked
    /\ mon.pc = "cad_done" /\ mon.kind = "trigger"
    /\ LET newInterval == getCurrentConfig.CheckInterval IN
         /\ mon' = [mon EXCEPT !.currentInterval = newInterval, !.pc = "select"]
         /\ ticker' \in TickerReset(ticker, newInterval)
    /\ UNCHANGED << config, initialCheckDone, mconfig, chans, metrics, watcher,
                    nacos, stopper, collected, panicked, nUpdates, nTriggers,
                    trigHist, cfgHist, passHist, draftvars, callvars >>

(***************************************************************************)
(* Trigger senders, Stop, Collect.                                         *)
(***************************************************************************)
\* the monitoring goroutine is inside checkAllDomains
PassRunning ==
    mon.pc \in {"cad_cfg", "cd_time", "cd_whois", "cd_status", "cd_days", "cd_exp",
                "sleep", "cad_done"}

\* a trigger channel that takes every signal
TriggerAcceptedUnbounded == TRUE
\* a send that is skipped while a check is in progress and at no other time
TriggerAcceptedWhenIdle == ~PassRunning
\* the non-blocking send of a trigger: accepted while the buffer has room
TriggerAccepted == triggerChan < TriggerChanCap

\* bookkeeping of a trigger signal being issued (accepted or dropped)
IssueTrigger ==
    /\ triggerChan' = IF TriggerAccepted THEN triggerChan + 1 ELSE triggerChan
    /\ bursts' = IF unserved = 0 THEN bursts + 1 ELSE bursts
    /\ unserved' = IF unserved < 2 THEN unserved + 1 ELSE unserved
    /\ UNCHANGED << served, trigPasses >>

\* TriggerCheck, called by the /trigger handler
TriggerCheck ==
    /\ ~panicked
    /\ nTriggers < MaxTriggers
    /\ nTriggers' = nTriggers + 1
    /\ IssueTrigger
    /\ UNCHANGED << config, initialCheckDone, mconfig, stopChan, updateChan, updateClosed,
                    metrics, mon, ticker, watcher, nacos, stopper, collected, panicked,
                    nUpdates, cfgHist, passHist, draftvars, callvars >>

\* Stop, first statement: close(e.stopChan)
Stop ==
    /\ ~panicked
    /\ stopper = "waiting"
    /\ stopChan' = "closed"
    /\ stopper' = "closing"
    /\ UNCHANGED << config, initialCheckDone, mconfig, triggerChan, updateChan, updateClosed,
                    metrics, mon, ticker, watcher, nacos, collected, panicked,
                    nUpdates, nTriggers, trigHist, cfgHist, passHist, draftvars, callvars >>

\* Stop, second statement: e.nacosManager.Close(), which closes updateChan
NacosClose ==
    /\ ~panicked
    /\ stopper = "closing"
    /\ updateClosed' = TRUE
    /\ stopper' = "done"
    /\ UNCHANGED << config, initialCheckDone, mconfig, triggerChan, stopChan, updateChan,
                    metrics, mon, ticker, watcher, nacos, collected, panicked,
                    nUpdates, nTriggers, trigHist, cfgHist, passHist, draftvars, callvars >>

\* Collect: the four GaugeVecs are collected under the read lock
Collect ==
    /\ ~panicked
    /\ collected' = [days |-> domainExpiryDays, expiry |-> domainExpiryTime,
                     check |-> domainCheckTime, status |-> domainStatus,
                     retracted |-> retracted]
    /\ UNCHANGED << config, initialCheckDone, mconfig, chans, metrics, mon, ticker, watcher,
                    nacos, stopper, panicked, nUpdates, nTriggers,
                    trigHist, cfgHist, passHist, draftvars, callvars >>

(***************************************************************************)
(* NacosConfigManager: the OnChange callback registered by watchConfig.    *)
(***************************************************************************)
\* OnChange with an empty payload or one yaml.Unmarshal rejects: return, nothing changes
OnChangeRejected ==
    /\ ~panicked
    /\ nacos.pc = "idle"
    /\ UNCHANGED vars

\* OnChange with a valid payload: build newConfig, m.config = &newConfig under the lock
OnChangeStore ==
    /\ ~panicked
    /\ nacos.pc = "idle"
    /\ nUpdates < MaxUpdates
    /\ nUpdates' = nUpdates + 1
    /\ \E p \in ValidPayloads :
          LET newConfig == BuildConfig(p, mconfig) IN
            /\ mconfig' = newConfig
            /\ nacos' = [pc |-> "notify", newConfig |-> newConfig]
    /\ UNCHANGED << config, initialCheckDone, chans, metrics, mon, ticker, watcher,
                    stopper, collected, panicked, nTriggers,
                    trigHist, retracted, hadSuccess, passHist, draftvars, callvars >>

OnChangeSwap == OnChangeStore /\ UNCHANGED lateChange

\* the same step with the history of late changes kept: the new domain list differs
\* from the one held and the startup pass has completed
OnChangeSwapLate ==
    /\ OnChangeStore
    /\ lateChange' = (lateChange \/ (initialCheckDone /\ mconfig'.Domains # mconfig.Domains))

\* OnChange: select { case m.updateChan <- &newConfig: ... default: ... }
\* (a send on a closed channel panics)
OnChangeNotify ==
    /\ nacos.pc = "notify"
    /\ ~panicked
    /\ nacos' = [pc |-> "idle", newConfig |-> NoConfig]
    /\ IF updateClosed
       THEN panicked' = TRUE /\ updateChan' = updateChan
       ELSE /\ panicked' = panicked
            /\ updateChan' = IF Len(updateChan) < UpdateChanCap
                              THEN Append(updateChan, nacos.newConfig)
                              ELSE updateChan
    /\ UNCHANGED << config, initialCheckDone, mconfig, triggerChan, stopChan, updateClosed,
                    metrics, mon, ticker, watcher, stopper, collected,
                    nUpdates, nTriggers, trigHist, cfgHist, passHist, draftvars, callvars >>

(***************************************************************************)
(* watchConfigUpdates.                                                     *)
(***************************************************************************)
\* an update that changes one field at a time of the Config readers already hold
SwapConfigInPlace(old, new) == [old EXCEPT !.Domains = new.Domains]
\* e.config = newConfig: the pointer is replaced
SwapConfig(old, new) == new

\* case newConfig := <-updateChan, then under e.mutex: oldConfig := *e.config;
\* e.config = newConfig; initialCheckDone := e.initialCheckDone
WatcherReceive ==
    /\ ~panicked
    /\ watcher.pc = "idle"
    /\ Len(updateChan) > 0
    /\ updateChan' = Tail(updateChan)
    /\ config' = SwapConfig(config, Head(updateChan))
    /\ watcher' = [pc |-> "cleanup", newConfig |-> Head(updateChan), oldConfig |-> config,
                   initialCheckDone |-> initialCheckDone]
    /\ retracted' = retracted \ Range(config'.Domains)
    /\ UNCHANGED << initialCheckDone, mconfig, triggerChan, stopChan, updateClosed,
                    metrics, mon, ticker, nacos, stopper, collected, panicked,
                    nUpdates, nTriggers, trigHist, hadSuccess, lateChange, passHist, draftvars, callvars >>

\* every domain of the old list, whether the new list keeps it or not
RemovedDomainsAllOld(oldConfig, newConfig) == Range(oldConfig.Domains)
\* the domains of the old list that are absent from the new list
RemovedDomains(oldConfig, newConfig) ==
    Range(oldConfig.Domains) \ Range(newConfig.Domains)

\* DeleteLabelValues(domain) on a GaugeVec for every removed domain
DeleteSeries(vec, removed) ==
    [d \in Domains |-> IF d \in removed THEN NoSeries ELSE vec[d]]

\* logConfigChanges (log only), cleanupMetricsForRemovedDomains(&oldConfig, newConfig)
cleanupMetricsForRemovedDomains ==
    /\ ~panicked
    /\ watcher.pc = "cleanup"
    /\ LET removed == RemovedDomains(watcher.oldConfig, watcher.newConfig) IN
         /\ domainExpiryDays' = DeleteSeries(domainExpiryDays, removed)
         /\ domainExpiryTime' = DeleteSeries(domainExpiryTime, removed)
         /\ domainCheckTime' = DeleteSeries(domainCheckTime, removed)
         /\ domainStatus' = DeleteSeries(domainStatus, removed)
         /\ retracted' = retracted \cup removed
         /\ hadSuccess' = hadSuccess \ removed
         /\ lastResult' = [d \in Domains |-> IF d \in removed THEN "none" ELSE lastResult[d]]
    /\ watcher' = [watcher EXCEPT !.pc = "trigger"]
    /\ UNCHANGED << config, initialCheckDone, mconfig, chans, mon, ticker,
                    nacos, stopper, collected, panicked, nUpdates, nTriggers,
                    trigHist, lateChange, passChecked, draftvars, callvars >>

\* case newConfig := <-updateChan on the closed, empty channel: newConfig is nil and
\* the loop goes round again
WatcherReceiveNil ==
    /\ ~panicked
    /\ watcher.pc = "idle"
    /\ updateClosed /\ Len(updateChan) = 0
    /\ UNCHANGED vars

\* if initialCheckDone { select { case e.triggerChan <- struct{}{}: default: } }
WatcherTrigger ==
    /\ ~panicked
    /\ watcher.pc = "trigger"
    /\ watcher' = [pc |-> "idle", newConfig |-> NoConfig, oldConfig |-> NoConfig,
                   initialCheckDone |-> FALSE]
    /\ IF watcher.initialCheckDone
       THEN IssueTrigger
       ELSE UNCHANGED << triggerChan, trigHist >>
    /\ UNCHANGED << config, initialCheckDone, mconfig, stopChan, updateChan, updateClosed,
                    metrics, mon, ticker, nacos, stopper, collected, panicked,
                    nUpdates, nTriggers, cfgHist, passHist, draftvars, callvars >>

\* case <-e.stopChan: return
WatcherStop ==
    /\ ~panicked
    /\ watcher.pc = "idle"
    /\ stopChan = "closed"
    /\ watcher' = [watcher EXCEPT !.pc = "returned"]
    /\ UNCHANGED << config, initialCheckDone, mconfig, chans, metrics, mon, ticker,
                    nacos, stopper, collected, panicked, nUpdates, nTriggers,
                    trigHist, cfgHist, passHist, draftvars, callvars >>

(***************************************************************************)
(* The earlier draft of checkAllDomains: one goroutine per list entry, a   *)
(* buffered channel of capacity MaxConcurrent as semaphore, a WaitGroup.   *)
(* The draft's checkDomain records the check time, queries WHOIS and sets  *)
(* the status (and, on success, days and expiry).                          *)
(***************************************************************************)
DraftDomains == << "a.com", "b.org", "c.net" >>

exporterVars == << config, initialCheckDone, mconfig, chans, mon, ticker, watcher, nacos,
                   stopper, collected, panicked, nUpdates, nTriggers, trigHist, cfgHist,
                   passHist >>

\* the draft exporter constructed with a list of N domains and MaxConcurrent = k, 1 <= k < N
InitDraft ==
    /\ InitExporter
    /\ mconfig = LocalConfig /\ config = LocalConfig /\ updateChan = << >>
    /\ \E k \in 1..(Len(DraftDomains) - 1) :
          draft = [pc |-> "idle", Domains |-> DraftDomains, MaxConcurrent |-> k, next |-> 0]
    /\ workers = << >>
    /\ semaphore = 0
    /\ wg = 0
    /\ InitCallsOff

\* the number of resolutions between taking and releasing a semaphore slot
InFlight ==
    Cardinality({ w \in 1..Len(workers) :
                     workers[w].pc \in {"cd_time", "cd_whois", "cd_record", "release"} })

\* StartMonitoring calls checkAllDomains (cold start, tick or trigger):
\* semaphore := make(chan struct{}, currentConfig.MaxConcurrent); var wg sync.WaitGroup
DraftCheckAllDomainsBegin ==
    /\ draft.pc = "idle"
    /\ draft' = [draft EXCEPT !.pc = "spawn", !.next = 1]
    /\ workers' = << >>
    /\ semaphore' = 0
    /\ wg' = 0
    /\ UNCHANGED << exporterVars, callvars, metrics >>

\* for _, domain := range currentConfig.Domains { wg.Add(1); go func(d string) {...}(domain) }
DraftSpawn ==
    /\ draft.pc = "spawn"
    /\ draft.next <= Len(draft.Domains)
    /\ wg' = wg + 1
    /\ workers' = Append(workers, [pc |-> "started", domain |-> draft.Domains[draft.next]])
    /\ draft' = [draft EXCEPT !.next = @ + 1]
    /\ UNCHANGED << exporterVars, callvars, metrics, semaphore >>

\* the range loop is over: wg.Wait() is reached
DraftSpawnDone ==
    /\ draft.pc = "spawn"
    /\ draft.next > Len(draft.Domains)
    /\ draft' = [draft EXCEPT !.pc = "wait"]
    /\ UNCHANGED << exporterVars, callvars, metrics, workers, semaphore, wg >>

\* a send on the semaphore channel that does not wait for room
SemaphoreHasRoomUnbounded(taken, capacity) == TRUE
\* semaphore <- struct{}{} can proceed: the buffered channel has room
SemaphoreHasRoom(taken, capacity) == taken < capacity

\* worker: semaphore <- struct{}{}
DraftAcquire(w) ==
    /\ workers[w].pc = "started"
    /\ SemaphoreHasRoom(semaphore, draft.MaxConcurrent)
    /\ semaphore' = semaphore + 1
    /\ workers' = [workers EXCEPT ![w].pc = "cd_time"]
    /\ UNCHANGED << exporterVars, callvars, metrics, draft, wg >>

\* worker, checkDomain: e.domainCheckTime.WithLabelValues(domain).Set(now.Unix())
DraftCheckDomainTime(w) ==
    /\ workers[w].pc = "cd_time"
    /\ domainCheckTime' = [domainCheckTime EXCEPT ![workers[w].domain] = << Now >>]
    /\ workers' = [workers EXCEPT ![w].pc = "cd_whois"]
    /\ UNCHANGED << exporterVars, callvars, domainExpiryDays, domainExpiryTime, domainStatus,
                    draft, semaphore, wg >>

\* worker, checkDomain: GetDomainInfoWithFallback returns; on an error the status is
\* set to 0 and checkDomain returns, otherwise status, days and expiry are set
DraftCheckDomainRecord(w) ==
    /\ workers[w].pc = "cd_whois"
    /\ \E r \in WhoisResults :
          LET d == workers[w].domain IN
            IF r.ok
            THEN /\ domainStatus' = [domainStatus EXCEPT ![d] = << 1 >>]
                 /\ domainExpiryDays' = [domainExpiryDays EXCEPT ![d] = << DaysUntil(r.ExpiryDate) >>]
                 /\ domainExpiryTime' = [domainExpiryTime EXCEPT ![d] = << r.ExpiryDate >>]
            ELSE /\ domainStatus' = [domainStatus EXCEPT ![d] = << 0 >>]
                 /\ UNCHANGED << domainExpiryDays, domainExpiryTime >>
    /\ workers' = [workers EXCEPT ![w].pc = "release"]
    /\ UNCHANGED << exporterVars, callvars, domainCheckTime, draft, semaphore, wg >>

\* worker: defer func() { <-semaphore }()
DraftRelease(w) ==
    /\ workers[w].pc = "release"
    /\ semaphore' = semaphore - 1
    /\ workers' = [workers EXCEPT ![w].pc = "wg_done"]
    /\ UNCHANGED << exporterVars, callvars, metrics, draft, wg >>

\* worker: defer wg.Done()
DraftWgDone(w) ==
    /\ workers[w].pc = "wg_done"
    /\ wg' = wg - 1
    /\ workers' = [workers EXCEPT ![w].pc = "returned"]
    /\ UNCHANGED << exporterVars, callvars, metrics, draft, semaphore >>

\* wg.Wait() returns: checkAllDomains returns to the loop of StartMonitoring
DraftWaitReturns ==
    /\ draft.pc = "wait"
    /\ wg = 0
    /\ draft' = [draft EXCEPT !.pc = "idle"]
    /\ UNCHANGED << exporterVars, callvars, metrics, workers, semaphore, wg >>

DraftNext ==
    \/ DraftCheckAllDomainsBegin
    \/ DraftSpawn
    \/ DraftSpawnDone
    \/ DraftWaitReturns
    \/ \E w \in 1..Len(workers) :
          \/ DraftAcquire(w)
          \/ DraftCheckDomainTime(w)
          \/ DraftCheckDomainRecord(w)
          \/ DraftRelease(w)
          \/ DraftWgDone(w)

\* The earlier draft: passes of the concurrent checkAllDomains.
SpecDraft == InitDraft /\ [][DraftNext]_vars

\* LoadConfig of the draft: if config.MaxConcurrent == 0 { config.MaxConcurrent = 5 }
DefaultMaxConcurrent == 5

\* the limits configuration loading lets through to checkAllDomains: from the file, the
\* value given or the default for 0; from a Nacos payload, the value given or, when
\* the payload leaves it out, 0, which applyDefaults does not replace
LoadedLimits == {0, 2, DefaultMaxConcurrent}

\* the draft exporter constructed with a list of domains and a limit as loaded
InitDraftLoaded ==
    /\ InitExporter
    /\ mconfig = LocalConfig /\ config = LocalConfig /\ updateChan = << >>
    /\ \E k \in LoadedLimits :
          draft = [pc |-> "idle", Domains |-> DraftDomains, MaxConcurrent |-> k, next |-> 0]
    /\ workers = << >>
    /\ semaphore = 0
    /\ wg = 0
    /\ InitCallsOff

\* The earlier draft with any limit that is loaded; a goroutine that can run does run.
SpecDraftLoaded == InitDraftLoaded /\ [][DraftNext]_vars /\ WF_vars(DraftNext)

(***************************************************************************)
(* The WHOIS resolver: GetDomainInfoWithFallback (retry wrapper) and the   *)
(* backup-server variant GetDomainInfoWithSmartFallback.  A domain is the  *)
(* sequence of its labels; every query is answered by the network.         *)
(***************************************************************************)
maxRetries == 2

\* how one WHOIS query can end: a DomainInfo, whois.Whois / net.Dial failing, the
\* context timing out, or text from which parseDomainInfo extracts no expiry date
WhoisOutcomes == {"ok", "transport", "timeout", "parse"}

ResolverDomains == { << "a", "com" >>, << "b", "ORG" >>, << "x", "io" >>, << "localhost" >> }

\* config.WhoisServers, the general backup list
ServerLists ==
    { << >>, << "whois.iana.org" >>, << "whois.iana.org", "whois.nic.io" >> }

\* strings.ToLower on the labels the model uses
ToLower(label) == IF label = "ORG" THEN "org" ELSE label

\* getPreferredWhoisServers: the servers preferred for the TLD of the domain
getPreferredWhoisServers(domain) ==
    IF Len(domain) < 2 THEN << >>
    ELSE LET tld == ToLower(domain[Len(domain)]) IN
         CASE tld \in {"com", "net"} -> << "whois.verisign-grs.com" >>
           [] tld = "org"  -> << "whois.publicinterestregistry.net" >>
           [] tld = "info" -> << "whois.afilias.net" >>
           [] tld = "biz"  -> << "whois.neulevel.biz" >>
           [] tld = "us"   -> << "whois.nic.us" >>
           [] tld = "uk"   -> << "whois.nominet.uk" >>
           [] tld = "de"   -> << "whois.denic.de" >>
           [] tld = "fr"   -> << "whois.afnic.fr" >>
           [] tld = "jp"   -> << "whois.jprs.jp" >>
           [] tld = "cn"   -> << "whois.cnnic.cn" >>
           [] OTHER        -> << >>

\* the error of the query about to be appended to the history
QueryErr(server, outcome) == [kind |-> outcome, server |-> server, n |-> Len(queries) + 1]

\* a resolver at rest, between two calls
ResolverIdle == [ResolverOff EXCEPT !.pc = "idle"]

\* the exporter as constructed, the resolver ready for a call
InitWhois ==
    /\ InitExporter
    /\ mconfig = LocalConfig /\ config = LocalConfig /\ updateChan = << >>
    /\ InitDraftOff
    /\ resolver = ResolverIdle
    /\ queries = << >>
    /\ extractor = ExtractorOff
    /\ loader = LoaderOff
    /\ InitAuxOff

\* checkDomain calls GetDomainInfoWithFallback(domain, timeout, currentConfig)
CallGetDomainInfoWithFallback ==
    /\ resolver.pc = "idle"
    /\ \E d \in ResolverDomains :
          resolver' = [ResolverIdle EXCEPT !.pc = "retry", !.fn = "fallback",
                                          !.domain = d, !.attempt = 1]
    /\ queries' = << >>
    /\ UNCHANGED << exporterVars, metrics, draftvars, extractor, loader, auxcalls >>

\* lastErr keeps the first error
KeepFirstErr(lastErr, err) == IF lastErr = NoErr THEN err ELSE lastErr
\* lastErr = err
NextLastErr(lastErr, err) == err

\* one turn of the retry loop: GetDomainInfo(domain, timeout), return on success,
\* else lastErr = err and sleep before the next attempt, or give up after the last
RetryAttempt ==
    /\ resolver.pc = "retry"
    /\ \E o \in WhoisOutcomes :
          LET err == QueryErr("standard", o)
              last == NextLastErr(resolver.lastErr, err) IN
            /\ queries' = Append(queries, [server |-> "standard", outcome |-> o,
                                            answer |-> o])
            /\ resolver' =
                 IF o = "ok"
                 THEN [resolver EXCEPT !.pc = "done",
                          !.result = [ok |-> TRUE, msg |-> "", method |-> << "whois" >>,
                                      cause |-> NoErr]]
                 ELSE IF resolver.attempt < maxRetries
                 THEN [resolver EXCEPT !.lastErr = last, !.attempt = @ + 1]
                 ELSE [resolver EXCEPT !.lastErr = last, !.attempt = @ + 1, !.pc = "done",
                          !.result = [ok |-> FALSE, msg |-> "WHOIS query failed",
                                      method |-> << >>, cause |-> last]]
    /\ UNCHANGED << exporterVars, metrics, draftvars, extractor, loader, auxcalls >>

\* the earlier GetDomainInfoWithFallback calls GetDomainInfoWithSmartFallback
CallGetDomainInfoWithSmartFallback ==
    /\ resolver.pc = "idle"
    /\ \E d \in ResolverDomains, l \in ServerLists :
          resolver' = [ResolverIdle EXCEPT !.pc = "smart_std", !.fn = "smart",
                                          !.domain = d, !.servers = l]
    /\ queries' = << >>
    /\ UNCHANGED << exporterVars, metrics, draftvars, extractor, loader, auxcalls >>

\* the general list is tried before the servers preferred for the TLD
StageAfterStandardGeneralFirst(preferred, general) ==
    IF Len(general) > 0 THEN "general"
    ELSE IF Len(preferred) > 0 THEN "preferred" ELSE "failed"
\* what follows a failed standard query: the preferred servers if the TLD has any,
\* else the general list if it is not empty, else the final error
StageAfterStandard(preferred, general) ==
    IF Len(preferred) > 0 THEN "preferred"
    ELSE IF Len(general) > 0 THEN "general" ELSE "failed"

\* return nil, fmt.Errorf(all WHOIS query methods failed)
SmartFailed(r) ==
    [r EXCEPT !.pc = "done", !.stage = "failed",
              !.result = [ok |-> FALSE, msg |-> "all WHOIS query methods failed",
                          method |-> << >>, cause |-> NoErr]]

\* GetDomainInfoWithBackupServers is entered with a list of servers
EnterBackup(r, stage, list) ==
    [r EXCEPT !.pc = "backup", !.stage = stage, !.list = list, !.i = 1, !.lastErr = NoErr]

\* GetDomainInfoWithSmartFallback: the standard query comes first
SmartStandard ==
    /\ resolver.pc = "smart_std"
    /\ \E o \in WhoisOutcomes :
          LET preferred == getPreferredWhoisServers(resolver.domain)
              stage == StageAfterStandard(preferred, resolver.servers) IN
            /\ queries' = Append(queries, [server |-> "standard", outcome |-> o,
                                            answer |-> o])
            /\ resolver' =
                 IF o = "ok"
                 THEN [resolver EXCEPT !.pc = "done",
                          !.result = [ok |-> TRUE, msg |-> "", method |-> << "whois" >>,
                                      cause |-> NoErr]]
                 ELSE IF stage = "preferred" THEN EnterBackup(resolver, stage, preferred)
                 ELSE IF stage = "general" THEN EnterBackup(resolver, stage, resolver.servers)
                 ELSE SmartFailed(resolver)
    /\ UNCHANGED << exporterVars, metrics, draftvars, extractor, loader, auxcalls >>

\* queryWhoisServer(domain, server, timeout), by what the server does: a failed dial,
\* write or read returns its error.  Otherwise the read loop runs: each `break` in it
\* (end of the answer, read deadline with data, short read) leaves the select
\* statement and not the for statement around it, so the loop goes round until
\* ctx.Done() is ready and the timeout error is returned; the statements after the
\* loop (parseDomainInfo and info.Method = "whois(<server>)") are never reached.
queryWhoisServer(answer) ==
    IF answer = "transport" THEN "transport" ELSE "timeout"

\* one turn of the loop of GetDomainInfoWithBackupServers: queryWhoisServer on the
\* next server, return on success, else lastErr = err; after the last server the
\* error is returned to GetDomainInfoWithSmartFallback, which goes on to the general
\* list after the preferred servers, or fails
BackupQuery ==
    /\ resolver.pc = "backup"
    /\ \E a \in WhoisOutcomes :
          LET server == resolver.list[resolver.i]
              o == queryWhoisServer(a)
              err == QueryErr(server, o) IN
            /\ queries' = Append(queries, [server |-> server, outcome |-> o, answer |-> a])
            /\ resolver' =
                 IF o = "ok"
                 THEN [resolver EXCEPT !.pc = "done",
                          !.result = [ok |-> TRUE, msg |-> "",
                                      method |-> << "whois", server >>, cause |-> NoErr]]
                 ELSE IF resolver.i < Len(resolver.list)
                 THEN [resolver EXCEPT !.lastErr = err, !.i = @ + 1]
                 ELSE IF resolver.stage = "preferred" /\ Len(resolver.servers) > 0
                 THEN [EnterBackup(resolver, "general", resolver.servers)
                          EXCEPT !.backupErr = err]
                 ELSE [SmartFailed(resolver) EXCEPT !.lastErr = err, !.backupErr = err]
    /\ UNCHANGED << exporterVars, metrics, draftvars, extractor, loader, auxcalls >>

\* the caller has the result; the resolver is ready for the next call
ResolverReturn ==
    /\ resolver.pc = "done"
    /\ resolver' = ResolverIdle
    /\ queries' = << >>
    /\ UNCHANGED << exporterVars, metrics, draftvars, extractor, loader, auxcalls >>

WhoisNext ==
    \/ CallGetDomainInfoWithFallback
    \/ RetryAttempt
    \/ CallGetDomainInfoWithSmartFallback
    \/ SmartStandard
    \/ BackupQuery
    \/ ResolverReturn

\* Calls of the WHOIS resolver, one after the other.
SpecWhois == InitWhois /\ [][WhoisNext]_vars

(***************************************************************************)
(* Extraction of the expiry date from a WHOIS answer.  Two extractors are  *)
(* in the repository: parseDomainInfo with parseExpirationFromRawData and  *)
(* parseFlexibleDate (whois.go), and DomainChecker.getDomainExpiryDate     *)
(* with parseExpiryDateManually and extractDateFromString.  A date is      *)
(* modelled by its year, at the month, day and time of the current         *)
(* instant; a candidate is the text after an expiry field name, modelled   *)
(* by the date it spells and by which parsers read it:                     *)
(*   "iso"      2027-03-01      a layout and a numeric pattern read it     *)
(*   "named"    01-Mar-2027     only a layout reads it                     *)
(*   "numeric"  2027-3-1 x      only a numeric pattern reads it            *)
(*   "junk"                     nothing reads it                           *)
(***************************************************************************)
MaxLines == 2

\* time.Now(), as a year
NowYear == 2026

CandidateYears == {1990, 2001, NowYear + 1, 2090, 2200}

Candidates ==
    {[shape |-> "junk", year |-> 0]}
        \cup [shape : {"iso", "named", "numeric"}, year : CandidateYears]

\* WHOIS answers: the candidates in the order the extractor meets them
WhoisTexts == UNION { [1..n -> Candidates] : n \in 0..MaxLines }

\* what whoisparser.Parse makes of the answer: an error, no ExpirationDate, an
\* ExpirationDate no layout reads, or one that a layout reads
StructuredDates ==
    [kind : {"error", "empty", "unparsable"}, year : {0}]
        \cup [kind : {"date"}, year : CandidateYears]

SpecialDomains == {"github.com", "stackoverflow.com"}
ExtractDomains == SpecialDomains \cup {"a.com"}

\* t.After(now.AddDate(-1, 0, 0)) && t.Before(now.AddDate(20, 0, 0))
InWindow(year) == year > NowYear - 1 /\ year < NowYear + 20

\* time.Parse succeeds with one of the layouts
LayoutReads(c) == c.shape \in {"iso", "named"}

\* parseFlexibleDate: the first layout that parses gives the date
parseFlexibleDate(c) == LayoutReads(c)

\* the layout loop of parseExpiryDateManually returns a parsed date inside the window
LayoutAccepts(c) == LayoutReads(c) /\ InWindow(c.year)

\* extractDateFromString: a numeric pattern matches and year > 2000 && year < 2100
extractDateFromString(c) ==
    c.shape \in {"iso", "numeric"} /\ c.year > 2000 /\ c.year < 2100

ExtractorIdle == [ExtractorOff EXCEPT !.pc = "idle"]

Found(e, year, method, via) ==
    [e EXCEPT !.pc = "done", !.via = via,
              !.result = [ok |-> TRUE, ExpiryDate |-> year, Method |-> method]]

Failed(e) == [e EXCEPT !.pc = "done", !.result = NotFound]

\* the exporter as constructed, the extractor ready for a call
InitExtract ==
    /\ InitExporter
    /\ mconfig = LocalConfig /\ config = LocalConfig /\ updateChan = << >>
    /\ InitDraftOff
    /\ resolver = ResolverOff
    /\ queries = << >>
    /\ extractor = ExtractorIdle
    /\ loader = LoaderOff
    /\ InitAuxOff

\* GetDomainInfo received an answer and calls parseDomainInfo(domain, res.data)
CallParseDomainInfo ==
    /\ extractor.pc = "idle"
    /\ \E t \in WhoisTexts, sd \in StructuredDates :
          extractor' = [ExtractorIdle EXCEPT !.pc = "structured", !.fn = "parseDomainInfo",
                                            !.domain = "a.com", !.lines = t,
                                            !.structured = sd]
    /\ UNCHANGED << exporterVars, metrics, draftvars, resolver, queries, loader, auxcalls >>

\* parseDomainInfo: whoisparser.Parse, then the layouts on parsed.Domain.ExpirationDate;
\* without a readable ExpirationDate it hands the raw text to parseExpirationFromRawData
parseDomainInfo ==
    /\ extractor.pc = "structured"
    /\ extractor.fn = "parseDomainInfo"
    /\ extractor' =
         CASE extractor.structured.kind = "error" -> Failed(extractor)
           [] extractor.structured.kind = "date" ->
                Found(extractor, extractor.structured.year, "whois", "structured")
           [] OTHER -> [extractor EXCEPT !.pc = "raw", !.i = 1]
    /\ UNCHANGED << exporterVars, metrics, draftvars, resolver, queries, loader, auxcalls >>

\* parseExpirationFromRawData, one turn of its loop over the expiry patterns: the first
\* match that parseFlexibleDate parses is the expiry date
parseExpirationFromRawData ==
    /\ extractor.pc = "raw"
    /\ extractor' =
         IF extractor.i > Len(extractor.lines) THEN Failed(extractor)
         ELSE IF parseFlexibleDate(extractor.lines[extractor.i])
         THEN Found(extractor, extractor.lines[extractor.i].year,
                    "whois(manual_parse)", "layout")
         ELSE [extractor EXCEPT !.i = @ + 1]
    /\ UNCHANGED << exporterVars, metrics, draftvars, resolver, queries, loader, auxcalls >>

\* DomainChecker.checkDomain calls getDomainExpiryDate(domain)
CallGetDomainExpiryDate ==
    /\ extractor.pc = "idle"
    /\ \E d \in ExtractDomains :
          extractor' = [ExtractorIdle EXCEPT !.pc = "whois", !.fn = "getDomainExpiryDate",
                                            !.domain = d]
    /\ UNCHANGED << exporterVars, metrics, draftvars, resolver, queries, loader, auxcalls >>

\* whois.Whois(domain), retried for an ordinary domain.  When it fails,
\* getGithubExpiryDate and getStackOverflowExpiryDate return time.Now().AddDate(1, 0, 0)
\* and a nil error; getDomainExpiryDate returns the error for any other domain.  The
\* functions return a time.Time: there is no method next to it
DomainWhois ==
    /\ extractor.pc = "whois"
    /\ \/ extractor' =
            IF extractor.domain \in SpecialDomains
            THEN Found(extractor, NowYear + 1, "", "estimated")
            ELSE Failed(extractor)
       \/ \E t \in WhoisTexts, sd \in StructuredDates :
            extractor' = [extractor EXCEPT !.pc = "manual", !.lines = t,
                                          !.structured = sd, !.i = 1]
    /\ UNCHANGED << exporterVars, metrics, draftvars, resolver, queries, loader, auxcalls >>

\* parseExpiryDateManually, one line with an expiry field: the layouts with the window
\* check, then extractDateFromString; past the last line it returns an error, which is
\* the result of a special handler and sends getDomainExpiryDate on to whoisparser
parseExpiryDateManually ==
    /\ extractor.pc = "manual"
    /\ extractor' =
         IF extractor.i > Len(extractor.lines)
         THEN IF extractor.domain \in SpecialDomains
              THEN Failed(extractor)
              ELSE [extractor EXCEPT !.pc = "structured"]
         ELSE IF LayoutAccepts(extractor.lines[extractor.i])
         THEN Found(extractor, extractor.lines[extractor.i].year, "", "layout")
         ELSE IF extractDateFromString(extractor.lines[extractor.i])
         THEN Found(extractor, extractor.lines[extractor.i].year, "", "numeric")
         ELSE [extractor EXCEPT !.i = @ + 1]
    /\ UNCHANGED << exporterVars, metrics, draftvars, resolver, queries, loader, auxcalls >>

\* getDomainExpiryDate after the manual parse failed: whoisparser.Parse and the layouts
\* on parsed.Domain.ExpirationDate
getDomainExpiryDateParsed ==
    /\ extractor.pc = "structured"
    /\ extractor.fn = "getDomainExpiryDate"
    /\ extractor' =
         IF extractor.structured.kind = "date"
         THEN Found(extractor, extractor.structured.year, "", "structured")
         ELSE Failed(extractor)
    /\ UNCHANGED << exporterVars, metrics, draftvars, resolver, queries, loader, auxcalls >>

\* the caller has the result; the extractor is ready for the next call
ExtractorReturn ==
    /\ extractor.pc = "done"
    /\ extractor' = ExtractorIdle
    /\ UNCHANGED << exporterVars, metrics, draftvars, resolver, queries, loader, auxcalls >>

ExtractNext ==
    \/ CallParseDomainInfo
    \/ parseDomainInfo
    \/ parseExpirationFromRawData
    \/ CallGetDomainExpiryDate
    \/ DomainWhois
    \/ parseExpiryDateManually
    \/ getDomainExpiryDateParsed
    \/ ExtractorReturn

\* Extractions of the expiry date, one after the other.
SpecExtract == InitExtract /\ [][ExtractNext]_vars

\* the monitoring goroutine and its ticker
MonitorNext ==
    \/ StartMonitoring
    \/ checkAllDomainsBegin
    \/ checkDomainTime
    \/ checkDomainWhois
    \/ checkDomainStatus
    \/ checkDomainDays
    \/ checkDomainExpiry
    \/ checkAllDomainsSleep
    \/ AfterInitialPass
    \/ NewTicker
    \/ Tick
    \/ SelectTick
    \/ AfterTickPass

\* the trigger case of the select
TriggerNext ==
    \/ SelectTrigger
    \/ AfterTriggerPass

\* the configuration source and the configuration consumer
ConfigNext ==
    \/ OnChangeRejected
    \/ OnChangeSwap
    \/ OnChangeNotify
    \/ WatcherReceive
    \/ cleanupMetricsForRemovedDomains
    \/ WatcherTrigger

\* the same, keeping the history of late changes
ConfigNextLate ==
    \/ OnChangeRejected
    \/ OnChangeSwapLate
    \/ OnChangeNotify
    \/ WatcherReceive
    \/ cleanupMetricsForRemovedDomains
    \/ WatcherTrigger

\* shutdown
StopNext ==
    \/ Stop
    \/ NacosClose
    \/ SelectStop
    \/ WatcherStop
    \/ WatcherReceiveNil

\* The exporter under a changing configuration: monitoring loop, configuration
\* source, configuration consumer and the triggers the consumer sends.
Spec == Init /\ [][MonitorNext \/ TriggerNext \/ ConfigNext]_vars

\* The same, with the changes of the domain list that arrive after the startup pass
\* followed up to the pass that covers them.
SpecChange == Init /\ [][MonitorNext \/ TriggerNext \/ ConfigNextLate]_vars

\* The exporter with manual triggers and shutdown, the configuration staying as loaded.
SpecControl == Init /\ [][MonitorNext \/ TriggerNext \/ TriggerCheck \/ StopNext]_vars

\* The exporter under a changing configuration with callers of /trigger.
SpecTrigger == Init /\ [][MonitorNext \/ TriggerNext \/ ConfigNext \/ TriggerCheck]_vars

\* The exporter under a changing configuration that is shut down: the configuration
\* source keeps calling OnChange while and after Stop runs, since Close only closes
\* updateChan and leaves the listener registered.
SpecShutdown == Init /\ [][MonitorNext \/ TriggerNext \/ ConfigNext \/ StopNext]_vars

\* the consumer of the configuration the startup load left on updateChan
WatcherNext ==
    \/ WatcherReceive
    \/ cleanupMetricsForRemovedDomains
    \/ WatcherTrigger

\* The exporter with callers of /trigger, the configuration of the startup load on
\* its way to the watcher, and a shutdown.
SpecService ==
    Init /\ [][MonitorNext \/ TriggerNext \/ WatcherNext \/ TriggerCheck \/ StopNext]_vars

\* The exporter being scraped while it checks, under a changing configuration.
SpecScrape == Init /\ [][MonitorNext \/ TriggerNext \/ ConfigNext \/ Collect]_vars

(***************************************************************************)
(* The external configuration source answering with a failure.             *)
(* NewNacosConfigManager calls loadConfigFromNacos once before the         *)
(* exporter exists; afterwards the client calls OnChange with the new      *)
(* content.  An answer is a fetch error, empty content, content            *)
(* yaml.Unmarshal rejects, or a payload.                                   *)
(***************************************************************************)
MaxFailures == 1

\* the Config yaml.Unmarshal leaves when it reads nothing
ZeroPayload == [Domains |-> << >>, CheckInterval |-> 0, Timeout |-> 0, NacosUrl |-> ""]

SourceAnswers ==
    [kind : {"fetch_error", "empty", "malformed"}, payload : {ZeroPayload}]
        \cup [kind : {"valid"}, payload : ValidPayloads]

\* no test of the content for emptiness
EmptyContentAccepted(a) == FALSE
\* content == "" / data == ""
EmptyContent(a) == a.kind = "empty"

\* yaml.Unmarshal returns an error
UnmarshalFails(a) == a.kind = "malformed"

\* the exporter's process before NewNacosConfigManager has loaded anything
InitLoad ==
    /\ InitFields
    /\ mon = [MonitorStart EXCEPT !.pc = "off"]
    /\ nacos = [pc |-> "off", newConfig |-> NoConfig]
    /\ mconfig = LocalConfig /\ config = LocalConfig /\ updateChan = << >>
    /\ InitDraftOff
    /\ resolver = ResolverOff
    /\ queries = << >>
    /\ extractor = ExtractorOff
    /\ loader = [LoaderOff EXCEPT !.pc = "load"]
    /\ InitAuxOff

\* NewNacosConfigManager: manager.config = localConfig, loadConfigFromNacos (an error
\* is logged and nothing else), go watchConfig; NewDomainExporter then takes
\* GetConfig() and main starts StartMonitoring
NewNacosConfigManager ==
    /\ loader.pc = "load"
    /\ \E a \in SourceAnswers :
          LET failed == a.kind = "fetch_error" \/ EmptyContent(a) \/ UnmarshalFails(a)
              nacosConfig == BuildConfig(a.payload, mconfig) IN
            /\ loader' = [loader EXCEPT !.pc = "watching", !.startup = a.kind]
            /\ nacos' = [nacos EXCEPT !.pc = "idle"]
            /\ mon' = MonitorStart
            /\ mconfig' = IF failed THEN mconfig ELSE nacosConfig
            /\ config' = IF failed THEN mconfig ELSE nacosConfig
            /\ updateChan' = IF failed \/ Len(updateChan) >= UpdateChanCap
                              THEN updateChan
                              ELSE Append(updateChan, nacosConfig)
    /\ UNCHANGED << initialCheckDone, triggerChan, stopChan, updateClosed, metrics,
                    ticker, watcher, stopper, collected, panicked, nUpdates,
                    nTriggers, trigHist, cfgHist, passHist, draftvars, resolver, queries,
                    extractor, auxcalls >>

\* OnChange with empty content or content yaml.Unmarshal rejects: it returns before
\* newConfig is completed, stored or sent
OnChangeFailure ==
    /\ ~panicked
    /\ loader.pc = "watching"
    /\ nacos.pc = "idle"
    /\ loader.failures < MaxFailures
    /\ \E a \in { x \in SourceAnswers : x.kind \in {"empty", "malformed"} } :
          LET newConfig == BuildConfig(a.payload, mconfig) IN
            /\ loader' = [loader EXCEPT !.failures = @ + 1, !.held = mconfig]
            /\ IF EmptyContent(a) \/ UnmarshalFails(a)
               THEN UNCHANGED << mconfig, nacos >>
               ELSE /\ mconfig' = newConfig
                    /\ nacos' = [pc |-> "notify", newConfig |-> newConfig]
    /\ UNCHANGED << config, initialCheckDone, chans, metrics, mon, ticker, watcher,
                    stopper, collected, panicked, nUpdates, nTriggers,
                    trigHist, cfgHist, passHist, draftvars, resolver, queries, extractor,
                    auxcalls >>

\* the construction, then the monitoring loop, OnChange and watchConfigUpdates
LoadNext ==
    \/ NewNacosConfigManager
    \/ OnChangeFailure
    \/ MonitorNext
    \/ TriggerNext
    \/ OnChangeSwap
    \/ OnChangeNotify
    \/ WatcherReceive
    \/ cleanupMetricsForRemovedDomains
    \/ WatcherTrigger

\* The exporter from the construction of its configuration manager on, with a source
\* that can fail.
SpecLoad == InitLoad /\ [][LoadNext]_vars

(***************************************************************************)
(* The configuration from its sources: LoadConfig (environment, file,      *)
(* defaults) and the payloads of the external source applied on top        *)
(* (loadConfigFromNacos, OnChange).  Here a Config has all its fields; it  *)
(* is a function from the field name.  An environment is a function from   *)
(* the field name to the string os.Getenv returns for the field's          *)
(* variable ("" when the variable is not set).                             *)
(***************************************************************************)
MaxPayloads == 2

DefaultPort == 8080

ConnFields == {"NacosUrl", "Username", "Password", "NamespaceId", "DataId", "Group"}
IntFields == {"CheckInterval", "Port", "Timeout"}
BusinessFields == {"Domains", "CheckInterval", "Timeout"}
ConfigFields == ConnFields \cup IntFields \cup {"Domains", "LogLevel"}

\* the zero value of a field's Go type
ZeroOf(f) == IF f \in IntFields THEN 0 ELSE IF f = "Domains" THEN << >> ELSE ""

\* var config Config
ZeroConfig == [f \in ConfigFields |-> ZeroOf(f)]

\* strconv.Atoi
Atoi(str) ==
    CASE str = "0" -> [ok |-> TRUE, n |-> 0]
      [] str = "60" -> [ok |-> TRUE, n |-> 60]
      [] str = "-5" -> [ok |-> TRUE, n |-> -5]
      [] OTHER -> [ok |-> FALSE, n |-> 0]

\* strings.Split(val, ",") and strings.TrimSpace of every element
SplitDomains(str) ==
    IF str = "x.com, y.org" THEN << "x.com", "y.org" >> ELSE << str >>

\* the strings a variable of the environment can hold, apart from ""
EnvStrings(f) ==
    IF f \in IntFields THEN {"0", "60", "-5", "abc"}
    ELSE IF f = "Domains" THEN {"x.com, y.org"}
    ELSE {"env-value"}

NoEnv == [f \in ConfigFields |-> ""]
EnvAll ==
    [f \in ConfigFields |->
        IF f \in IntFields THEN "60" ELSE IF f = "Domains" THEN "x.com, y.org"
        ELSE "env-value"]

\* environments: nothing set, one variable set, every variable set
Environments ==
    {NoEnv, EnvAll}
        \cup UNION { { [NoEnv EXCEPT ![f] = str] : str \in EnvStrings(f) } : f \in ConfigFields }

\* the values yaml.Unmarshal can leave in a field, apart from the zero value
YamlValues(f, tag) ==
    IF f \in IntFields THEN {300, -7}
    ELSE IF f = "Domains" THEN {<< tag >>}
    ELSE {tag}

YamlAll(tag) ==
    [f \in ConfigFields |->
        IF f \in IntFields THEN 300 ELSE IF f = "Domains" THEN << tag >> ELSE tag]

\* what yaml.Unmarshal makes of a document: no field, one field, every field
YamlConfigs(tag) ==
    {ZeroConfig, YamlAll(tag)}
        \cup UNION { { [ZeroConfig EXCEPT ![f] = v] : v \in YamlValues(f, tag) } : f \in ConfigFields }

\* the configuration file: none that can be read and parsed, or its content
NoFile == [f \in {"absent"} |-> TRUE]
Files == {NoFile} \cup YamlConfigs("file-value")

\* the payloads of the external source that yaml.Unmarshal accepts
Payloads == YamlConfigs("nacos-value")

\* the value loadFromEnv stores for a variable that is set
EnvValue(f, str) ==
    IF f \in IntFields THEN (IF Atoi(str).ok THEN Atoi(str).n ELSE 0)
    ELSE IF f = "Domains" THEN SplitDomains(str)
    ELSE str

\* loadFromEnv on var config Config
loadFromEnv(env) ==
    [f \in ConfigFields |-> IF env[f] = "" THEN ZeroOf(f) ELSE EnvValue(f, env[f])]

\* a merge in which the file wins
mergeConfigFileFirst(envConfig, fileConfig) ==
    [f \in ConfigFields |->
        IF fileConfig[f] = ZeroOf(f) THEN envConfig[f] ELSE fileConfig[f]]
\* mergeConfig: a field of envConfig that is zero takes the value of fileConfig
mergeConfig(envConfig, fileConfig) ==
    [f \in ConfigFields |->
        IF envConfig[f] = ZeroOf(f) THEN fileConfig[f] ELSE envConfig[f]]

\* the default applyDefaults has for a field (NacosUrl, Username, Password and Domains
\* have none)
DefaultOf(f) ==
    CASE f = "CheckInterval" -> DefaultCheckInterval
      [] f = "Port" -> DefaultPort
      [] f = "Timeout" -> DefaultTimeout
      [] f = "LogLevel" -> "info"
      [] f = "DataId" -> "domain-exporter"
      [] f = "Group" -> "DEFAULT_GROUP"
      [] f = "NamespaceId" -> "public"
      [] OTHER -> ZeroOf(f)

\* applyDefaults on a Config with all its fields
applyDefaultsConfig(c) ==
    [f \in ConfigFields |-> IF c[f] = ZeroOf(f) THEN DefaultOf(f) ELSE c[f]]

\* LoadConfig(filename)
LoadConfig(env, file) ==
    applyDefaultsConfig(IF file = NoFile THEN loadFromEnv(env)
                        ELSE mergeConfig(loadFromEnv(env), file))

\* connection parameters taken from the payload when it carries them
ConnectionFromPayload(payload, cur, f) == IF payload[f] = "" THEN cur[f] ELSE payload[f]
\* nacosConfig.NacosUrl = m.config.NacosUrl, ... (the six connection fields)
ConnectionKept(payload, cur, f) == cur[f]

\* loadConfigFromNacos / OnChange after yaml.Unmarshal: the connection fields of the
\* configuration held, the other fields of the payload, then applyDefaults
ApplyPayload(payload, cur) ==
    applyDefaultsConfig(
        [f \in ConfigFields |->
            IF f \in ConnFields THEN ConnectionKept(payload, cur, f) ELSE payload[f]])

\* the process starts with some environment
InitConfig ==
    /\ InitFields
    /\ mon = [MonitorStart EXCEPT !.pc = "off"]
    /\ nacos = [pc |-> "off", newConfig |-> NoConfig]
    /\ mconfig = LocalConfig /\ config = LocalConfig /\ updateChan = << >>
    /\ InitDraftOff
    /\ resolver = ResolverOff
    /\ queries = << >>
    /\ extractor = ExtractorOff
    /\ loader = LoaderOff
    /\ \E env \in Environments :
          loadcfg = [pc |-> "start", env |-> env, file |-> NoFile, local |-> ZeroConfig,
                     live |-> ZeroConfig, applied |-> 0]
    /\ dates = DatesOff
    /\ locks = LocksOff
    /\ lookup = LookupOff
    /\ listcmp = ListCmpOff

\* main: config, err := LoadConfig(*configFile); the exporter starts with it
MainLoadConfig ==
    /\ loadcfg.pc = "start"
    /\ \E file \in Files :
          loadcfg' = [loadcfg EXCEPT !.pc = "loaded", !.file = file,
                                    !.local = LoadConfig(loadcfg.env, file),
                                    !.live = LoadConfig(loadcfg.env, file)]
    /\ UNCHANGED << exporterVars, metrics, draftvars, resolver, queries, extractor, loader,
                    dates, locks, lookup, listcmp >>

\* with IsNacosEnabled: loadConfigFromNacos at startup or OnChange later has a payload
\* that parses; m.config = &nacosConfig, which NewDomainExporter or watchConfigUpdates
\* makes e.config
NacosPayloadApplied ==
    /\ loadcfg.pc = "loaded"
    /\ loadcfg.live["NacosUrl"] # ""
    /\ loadcfg.applied < MaxPayloads
    /\ \E payload \in Payloads :
          loadcfg' = [loadcfg EXCEPT !.live = ApplyPayload(payload, loadcfg.live),
                                    !.applied = @ + 1]
    /\ UNCHANGED << exporterVars, metrics, draftvars, resolver, queries, extractor, loader,
                    dates, locks, lookup, listcmp >>

ConfigLoadNext ==
    \/ MainLoadConfig
    \/ NacosPayloadApplied

\* The configuration of one process, from LoadConfig through the payloads applied.
SpecConfig == InitConfig /\ [][ConfigLoadNext]_vars

(***************************************************************************)
(* Timestamps as text.  A WHOIS line is a sequence of pieces: a number     *)
(* with its width in digits, or a piece of text.  time.Time.Format writes  *)
(* an instant piece by piece after a layout, and time.Parse reads a value  *)
(* back against a layout; the extractors clean the value in between.       *)
(* Instants are UTC, [year, month, day, tod] with tod the second of the    *)
(* day.                                                                    *)
(***************************************************************************)
Num(n, w) == [k |-> "num", n |-> n, w |-> w, s |-> ""]
Txt(s) == [k |-> "txt", n |-> 0, w |-> 0, s |-> s]

longMonthNames ==
    << "January", "February", "March", "April", "May", "June", "July", "August",
       "September", "October", "November", "December" >>
shortMonthNames ==
    << "Jan", "Feb", "Mar", "Apr", "May", "Jun", "Jul", "Aug", "Sep", "Oct", "Nov", "Dec" >>
shortDayNames == << "Sun", "Mon", "Tue", "Wed", "Thu", "Fri", "Sat" >>
ZoneNames == {"UTC", "GMT", "MST"}

\* days since 1970-01-01 of a civil date
DaysFromCivil(year, month, day) ==
    LET y == IF month <= 2 THEN year - 1 ELSE year
        era == y \div 400
        yoe == y - era * 400
        mp == (month + 9) % 12
        doy == (153 * mp + 2) \div 5 + day - 1
        doe == yoe * 365 + yoe \div 4 - yoe \div 100 + doy
    IN era * 146097 + doe - 719468

\* time.Time.Unix()
Unix(t) == DaysFromCivil(t.year, t.month, t.day) * SecondsPerDay + t.tod

\* time.Time.Weekday(), abbreviated; 1970-01-01 was a Thursday
Weekday(t) == shortDayNames[((DaysFromCivil(t.year, t.month, t.day) + 4) % 7) + 1]

\* the layouts, chunk by chunk as time.Parse and Format read them
LayoutDate == << "2006", "-", "01", "-", "02" >>
LayoutClock == << "15", ":", "04", ":", "05" >>
LayoutISOZ == LayoutDate \o << "T" >> \o LayoutClock \o << "Z" >>
LayoutISOMillis == LayoutDate \o << "T" >> \o LayoutClock \o << ".000", "Z" >>
LayoutISOOffset == LayoutDate \o << "T" >> \o LayoutClock \o << "-07:00" >>
LayoutISOZero == LayoutDate \o << "T" >> \o LayoutClock \o << "+00:00" >>
LayoutISOBare == LayoutDate \o << "T" >> \o LayoutClock
LayoutSQLUTC == LayoutDate \o << " " >> \o LayoutClock \o << " ", "UTC" >>
LayoutSQL == LayoutDate \o << " " >> \o LayoutClock
LayoutDMonY == << "02", "-", "Jan", "-", "2006" >>
LayoutDMonYShort == << "2", "-", "Jan", "-", "2006" >>
LayoutSlashYMD == << "2006", "/", "01", "/", "02" >>
LayoutSlashMDY == << "01", "/", "02", "/", "2006" >>
LayoutDotYMD == << "2006", ".", "01", ".", "02" >>
LayoutUnixDate ==
    << "Mon", " ", "Jan", " ", "02", " " >> \o LayoutClock \o << " ", "MST", " ", "2006" >>
LayoutUnixDateShort ==
    << "Mon", " ", "Jan", " ", "2", " " >> \o LayoutClock \o << " ", "MST", " ", "2006" >>
LayoutMonthDY == << "January", " ", "02", " ", "2006" >>
LayoutMonDY == << "Jan", " ", "02", " ", "2006" >>
LayoutMonthDCommaY == << "January", " ", "02", ",", " ", "2006" >>
LayoutMonDCommaY == << "Jan", " ", "02", ",", " ", "2006" >>
LayoutDMonYSpaced == << "02", " ", "Jan", " ", "2006" >>
LayoutDMonYSpacedShort == << "2", " ", "Jan", " ", "2006" >>

\* formats of parseFlexibleDate, in order
FlexibleFormats ==
    << LayoutISOZ, LayoutISOMillis, LayoutISOBare, LayoutSQL, LayoutDate, LayoutDMonY,
       LayoutSlashYMD, LayoutSlashMDY, LayoutDotYMD, LayoutMonthDY, LayoutMonDY,
       LayoutDMonYSpaced, LayoutSQLUTC, LayoutUnixDate, LayoutISOOffset, LayoutISOZero >>

\* formats of parseExpiryDateManually, in order
ManualFormats ==
    << LayoutISOZ, LayoutISOMillis, LayoutISOOffset, LayoutSQLUTC, LayoutSQL, LayoutDate,
       LayoutDMonY, LayoutDMonYShort, LayoutSlashYMD, LayoutSlashMDY, LayoutDotYMD,
       LayoutUnixDate, LayoutUnixDateShort, LayoutMonthDCommaY, LayoutMonDCommaY,
       LayoutDMonYSpaced, LayoutDMonYSpacedShort >>

\* parseDomainInfo: the layout tried first, then its formats in order
StructuredFormats ==
    << LayoutISOZ, LayoutSQL, LayoutDate, LayoutDMonY, LayoutSlashYMD, LayoutISOMillis,
       LayoutUnixDate, LayoutMonthDY >>

\* the layout has a time of day
CarriesClock(layout) == \E i \in 1..Len(layout) : layout[i] = "15"

\* one chunk of time.Time.Format for an instant in UTC
FormatChunk(c, t) ==
    CASE c = "2006" -> Num(t.year, 4)
      [] c = "01" -> Num(t.month, 2)
      [] c = "02" -> Num(t.day, 2)
      [] c = "2" -> Num(t.day, IF t.day < 10 THEN 1 ELSE 2)
      [] c = "Jan" -> Txt(shortMonthNames[t.month])
      [] c = "January" -> Txt(longMonthNames[t.month])
      [] c = "Mon" -> Txt(Weekday(t))
      [] c = "15" -> Num(t.tod \div 3600, 2)
      [] c = "04" -> Num((t.tod % 3600) \div 60, 2)
      [] c = "05" -> Num(t.tod % 60, 2)
      [] c = "MST" -> Txt("UTC")
      [] c = "-07:00" -> Txt("+00:00")
      [] OTHER -> Txt(c)

\* time.Time.Format(layout)
Format(layout, t) == [i \in 1..Len(layout) |-> FormatChunk(layout[i], t)]

\* time.Parse: omitted elements are zero or, where zero is impossible, one
ZeroTime == [year |-> 0, month |-> 1, day |-> 1, tod |-> 0]
ParseError == [ok |-> FALSE, t |-> ZeroTime]

MonthOf(names, s) == CHOOSE m \in 1..12 : names[m] = s

\* time.Parse from chunk i of the layout and piece j of the value.  A number is read
\* with the width the chunk asks for; after the seconds a fractional second is read
\* even when the layout has none; text left over is an error
RECURSIVE ParseFrom(_, _, _, _, _)
ParseFrom(layout, value, i, j, acc) ==
    IF i > Len(layout)
    THEN IF j > Len(value) THEN [ok |-> TRUE, t |-> acc] ELSE ParseError
    ELSE IF j > Len(value) THEN ParseError
    ELSE
      LET c == layout[i]
          v == value[j]
          isNum(widths, lo, hi) == v.k = "num" /\ v.w \in widths /\ v.n >= lo /\ v.n <= hi
          fraction == /\ j < Len(value)
                      /\ value[j + 1] = Txt(".000")
                      /\ (i = Len(layout) \/ layout[i + 1] # ".000")
          go(a) == ParseFrom(layout, value, i + 1, j + 1, a)
      IN CASE c = "2006" ->
                IF isNum({4}, 0, 9999) THEN go([acc EXCEPT !.year = v.n]) ELSE ParseError
           [] c = "01" ->
                IF isNum({2}, 1, 12) THEN go([acc EXCEPT !.month = v.n]) ELSE ParseError
           [] c = "02" ->
                IF isNum({2}, 1, 31) THEN go([acc EXCEPT !.day = v.n]) ELSE ParseError
           [] c = "2" ->
                IF isNum({1, 2}, 1, 31) THEN go([acc EXCEPT !.day = v.n]) ELSE ParseError
           [] c = "Jan" ->
                IF v.k = "txt" /\ v.s \in Range(shortMonthNames)
                THEN go([acc EXCEPT !.month = MonthOf(shortMonthNames, v.s)])
                ELSE ParseError
           [] c = "January" ->
                IF v.k = "txt" /\ v.s \in Range(longMonthNames)
                THEN go([acc EXCEPT !.month = MonthOf(longMonthNames, v.s)])
                ELSE ParseError
           [] c = "Mon" ->
                IF v.k = "txt" /\ v.s \in Range(shortDayNames) THEN go(acc) ELSE ParseError
           [] c = "15" ->
                IF isNum({1, 2}, 0, 23)
                THEN go([acc EXCEPT !.tod = @ + v.n * 3600]) ELSE ParseError
           [] c = "04" ->
                IF isNum({2}, 0, 59) THEN go([acc EXCEPT !.tod = @ + v.n * 60]) ELSE ParseError
           [] c = "05" ->
                IF isNum({2}, 0, 59)
                THEN ParseFrom(layout, value, i + 1, IF fraction THEN j + 2 ELSE j + 1,
                               [acc EXCEPT !.tod = @ + v.n])
                ELSE ParseError
           [] c = "MST" ->
                IF v.k = "txt" /\ v.s \in ZoneNames THEN go(acc) ELSE ParseError
           [] c = "-07:00" ->
                IF v = Txt("+00:00") THEN go(acc) ELSE ParseError
           [] OTHER ->
                IF v = Txt(c) THEN go(acc) ELSE ParseError

\* time.Parse(layout, value)
TimeParse(layout, value) == ParseFrom(layout, value, 1, 1, ZeroTime)

\* the first position of the text where At holds, 0 when there is none
FirstAt(text, At(_)) ==
    LET hits == { p \in 1..Len(text) : At(p) }
    IN IF hits = {} THEN 0 ELSE CHOOSE p \in hits : \A q \in hits : p <= q

\* the loop over the formats: the first one that parses (and passes the test) wins
FirstFormat(formats, value, Accept(_)) ==
    LET n == FirstAt(formats, LAMBDA i : /\ TimeParse(formats[i], value).ok
                                          /\ Accept(TimeParse(formats[i], value).t))
    IN IF n = 0 THEN ParseError ELSE TimeParse(formats[n], value)

AnyTime(t) == TRUE

\* strings.TrimSpace
RECURSIVE TrimSpace(_)
TrimSpace(text) ==
    IF text = << >> THEN text
    ELSE IF Head(text) = Txt(" ") THEN TrimSpace(Tail(text))
    ELSE IF text[Len(text)] = Txt(" ") THEN TrimSpace(SubSeq(text, 1, Len(text) - 1))
    ELSE text

\* regexp `\s+UTC` and `\s+GMT` replaced by "": every " UTC" and " GMT" is removed.
\* (`\s+\+\d{4}` matches none of the values: their offset is written "+00:00")
RemoveZoneSuffix(text) ==
    LET zone(i) == i >= 1 /\ i <= Len(text) /\ text[i].s \in {"UTC", "GMT"}
        space(i) == i >= 1 /\ i <= Len(text) /\ text[i] = Txt(" ")
        gone(i) == (space(i) /\ zone(i + 1)) \/ (zone(i) /\ space(i - 1))
        F[i \in 0..Len(text)] ==
            IF i = 0 THEN << >>
            ELSE IF gone(i) THEN F[i - 1] ELSE Append(F[i - 1], text[i])
    IN F[Len(text)]

\* parseFlexibleDate(dateStr)
parseFlexibleDateText(dateStr) ==
    FirstFormat(FlexibleFormats, RemoveZoneSuffix(TrimSpace(dateStr)), AnyTime)

\* strings.Split(dateStr, " UTC")[0]
SplitAtUTC(text) ==
    LET i == FirstAt(text, LAMBDA p : /\ text[p] = Txt(" ")
                                          /\ p < Len(text)
                                          /\ text[p + 1].s = "UTC")
    IN IF i = 0 THEN text ELSE SubSeq(text, 1, i - 1)

\* what a piece of text has before its first "T"
BeforeT(s) ==
    CASE s = "UTC" -> "U"
      [] s = "GMT" -> "GM"
      [] s = "MST" -> "MS"
      [] OTHER -> ""

\* strings.Split(dateStr, "T")[0]: the value up to the first capital T, which is the
\* separator of date and clock, or the first letter of Tue and Thu, or inside a zone name
SplitAtT(text) ==
    LET i == FirstAt(text, LAMBDA p : text[p].s \in {"T", "Tue", "Thu", "UTC", "GMT", "MST"})
    IN IF i = 0 THEN text
       ELSE SubSeq(text, 1, i - 1)
               \o (IF BeforeT(text[i].s) = "" THEN << >> ELSE << Txt(BeforeT(text[i].s)) >>)

\* strings.SplitN(line, ":", 2): what follows the first colon, if there is one
AfterColon(line) ==
    LET i == FirstAt(line, LAMBDA p : line[p] = Txt(":"))
    IN [found |-> i # 0, rest |-> IF i = 0 THEN << >> ELSE SubSeq(line, i + 1, Len(line))]

\* extractDateFromString: the first numeric pattern with a plausible date gives that
\* day at midnight.  (The patterns are matched piece by piece; for the values written
\* by the layouts the regular expressions match at the same places.)
NumericPatterns ==
    << [sep |-> "-", yearAt |-> 1], [sep |-> "/", yearAt |-> 3],
       [sep |-> ".", yearAt |-> 1], [sep |-> ".", yearAt |-> 3] >>

NumericMatch(text, p, i) ==
    /\ i + 4 <= Len(text)
    /\ text[i].k = "num" /\ text[i + 2].k = "num" /\ text[i + 4].k = "num"
    /\ text[i + 1] = Txt(p.sep) /\ text[i + 3] = Txt(p.sep)
    /\ text[i + p.yearAt - 1].w = 4
    /\ \A q \in {i, i + 2, i + 4} \ {i + p.yearAt - 1} : text[q].w \in {1, 2}
    /\ (p.yearAt = 3 => text[i + 2].w \in {1, 2})

RECURSIVE extractDateFromText(_, _)
extractDateFromText(text, n) ==
    IF n > Len(NumericPatterns) THEN ParseError
    ELSE
      LET p == NumericPatterns[n]
          i == FirstAt(text, LAMBDA q : NumericMatch(text, p, q))
          year == IF p.yearAt = 1 THEN text[i].n ELSE text[i + 4].n
          month == IF p.yearAt = 1 THEN text[i + 2].n ELSE text[i].n
          day == IF p.yearAt = 1 THEN text[i + 4].n ELSE text[i + 2].n
      IN IF /\ i # 0
            /\ year > 2000 /\ year < 2100 /\ month >= 1 /\ month <= 12
            /\ day >= 1 /\ day <= 31
         THEN [ok |-> TRUE, t |-> [year |-> year, month |-> month, day |-> day, tod |-> 0]]
         ELSE extractDateFromText(text, n + 1)

\* parseExpiryDateManually on one line that holds an expiry field: the value after the
\* first colon is cleaned (its " (" part, none here, its " UTC" part, everything from
\* the first "T"), read with the formats inside the window, then with
\* extractDateFromString; a line without a colon or with an empty value is passed over
parseExpiryLine(line) ==
    LET parts == AfterColon(line)
        dateStr == SplitAtT(SplitAtUTC(TrimSpace(parts.rest)))
        byFormat == FirstFormat(ManualFormats, dateStr, LAMBDA t : InWindow(t.year))
    IN IF ~parts.found \/ TrimSpace(parts.rest) = << >> THEN ParseError
       ELSE IF byFormat.ok THEN byFormat
       ELSE extractDateFromText(dateStr, 1)

\* parseExpirationFromRawData on one line that holds an expiry field: what follows
\* the label and its colon goes to parseFlexibleDate
parseExpirationLine(line) ==
    LET parts == AfterColon(line)
    IN IF ~parts.found \/ TrimSpace(parts.rest) = << >> THEN ParseError
       ELSE parseFlexibleDateText(TrimSpace(parts.rest))

\* the expiry labels: with their colon, and the one that has none
LabelRegistry == << Txt("Registry Expiry Date"), Txt(":") >>
LabelPaidTill == << Txt("paid-till"), Txt(":") >>
LabelRecordExpires == << Txt("Record expires on") >>
RawLabels == {LabelRegistry, LabelPaidTill}
ManualLabels == {LabelRegistry, LabelRecordExpires}

\* the instants written into the answers: two days of one week inside the window, a
\* day with one digit, and a day twenty-four years ahead
Clocks == {0, 4 * 3600, 23 * 3600 + 59 * 60 + 59}
Instants ==
    { [year |-> d[1], month |-> d[2], day |-> d[3], tod |-> s] :
        d \in { << 2030, 8, 13 >>, << 2030, 8, 14 >>, << 2027, 5, 3 >>, << 2050, 1, 5 >> },
        s \in Clocks }

\* the line of a WHOIS answer with the instant in the layout after the label
ExpiryLine(label, layout, t) == label \o << Txt(" ") >> \o Format(layout, t)

DatesCall(fn, label, layout, t) ==
    [pc |-> "format", fn |-> fn, label |-> label, layout |-> layout, t |-> t,
     line |-> << >>, result |-> ParseError]

\* an instant is about to be written in one of the layouts an extractor supports
InitDates ==
    /\ InitFields
    /\ mon = [MonitorStart EXCEPT !.pc = "off"]
    /\ nacos = [pc |-> "off", newConfig |-> NoConfig]
    /\ mconfig = LocalConfig /\ config = LocalConfig /\ updateChan = << >>
    /\ InitDraftOff
    /\ resolver = ResolverOff
    /\ queries = << >>
    /\ extractor = ExtractorOff
    /\ loader = LoaderOff
    /\ loadcfg = LoadCfgOff
    /\ locks = LocksOff
    /\ lookup = LookupOff
    /\ listcmp = ListCmpOff
    /\ \E t \in Instants :
          \/ \E n \in 1..Len(FlexibleFormats), label \in RawLabels :
                dates = DatesCall("parseExpirationFromRawData", label, FlexibleFormats[n], t)
          \/ \E n \in 1..Len(ManualFormats), label \in ManualLabels :
                dates = DatesCall("parseExpiryDateManually", label, ManualFormats[n], t)

\* the registry writes the expiry line of its answer
WriteExpiryLine ==
    /\ dates.pc = "format"
    /\ dates' = [dates EXCEPT !.pc = "extract",
                              !.line = ExpiryLine(dates.label, dates.layout, dates.t)]
    /\ UNCHANGED << exporterVars, metrics, draftvars, resolver, queries, extractor, loader,
                    loadcfg, locks, lookup, listcmp >>

\* parseExpirationFromRawData meets the line
ReadExpirationLine ==
    /\ dates.pc = "extract"
    /\ dates.fn = "parseExpirationFromRawData"
    /\ dates' = [dates EXCEPT !.pc = "done", !.result = parseExpirationLine(dates.line)]
    /\ UNCHANGED << exporterVars, metrics, draftvars, resolver, queries, extractor, loader,
                    loadcfg, locks, lookup, listcmp >>

\* parseExpiryDateManually meets the line
ReadExpiryLine ==
    /\ dates.pc = "extract"
    /\ dates.fn = "parseExpiryDateManually"
    /\ dates' = [dates EXCEPT !.pc = "done", !.result = parseExpiryLine(dates.line)]
    /\ UNCHANGED << exporterVars, metrics, draftvars, resolver, queries, extractor, loader,
                    loadcfg, locks, lookup, listcmp >>

DatesNext ==
    \/ WriteExpiryLine
    \/ ReadExpirationLine
    \/ ReadExpiryLine

\* Timestamps written in the supported layouts and read back.
SpecDates == InitDates /\ [][DatesNext]_vars

(***************************************************************************)
(* One domain checked end to end: the WHOIS answer, parseDomainInfo, and   *)
(* checkDomain writing the series.                                         *)
(***************************************************************************)
\* DomainInfo as parseDomainInfo and parseExpirationFromRawData build it
DomainInfoOf(parsed, method) ==
    [ok |-> parsed.ok, t |-> parsed.t, Method |-> IF parsed.ok THEN method ELSE ""]

\* a parseDomainInfo that never gets an ExpirationDate from whoisparser
parseDomainInfoRawOnly(line) ==
    DomainInfoOf(parseExpirationLine(line), "whois(manual_parse)")

\* parseDomainInfo on an answer whoisparser.Parse accepts: parsed.Domain.ExpirationDate
\* is the value of the expiry line; read by the first layout or one of the formats the
\* result has Method "whois", otherwise the raw text goes to parseExpirationFromRawData
parseDomainInfoText(line) ==
    LET ExpirationDate == TrimSpace(AfterColon(line).rest)
        structured == FirstFormat(StructuredFormats, ExpirationDate, AnyTime)
    IN IF ExpirationDate # << >> /\ structured.ok
       THEN DomainInfoOf(structured, "whois")
       ELSE DomainInfoOf(parseExpirationLine(line), "whois(manual_parse)")

\* what the WHOIS query gives for the domain in this run: no answer within the
\* timeout, an answer whoisparser.Parse rejects, or an answer with an expiry line (of
\* an instant before 2038, whose Unix seconds are within the integers of the checker)
WhoisAnswers ==
    { [kind |-> k, line |-> << >>] : k \in {"timeout", "invalid"} }
        \cup { [kind |-> "text", line |-> ExpiryLine(LabelRegistry, FlexibleFormats[n], t)] :
                  n \in 1..Len(FlexibleFormats), t \in { u \in Instants : u.year < 2038 } }

NoDomainInfo == [ok |-> FALSE, t |-> ZeroTime, Method |-> ""]

SingleDomainConfig ==
    [Domains |-> << "a.com" >>, CheckInterval |-> DefaultCheckInterval,
     Timeout |-> DefaultTimeout, NacosUrl |-> ""]

\* the exporter as constructed with one domain configured and no Nacos
InitEndToEnd ==
    /\ InitExporter
    /\ mconfig = SingleDomainConfig /\ config = SingleDomainConfig /\ updateChan = << >>
    /\ InitDraftOff
    /\ resolver = ResolverOff
    /\ queries = << >>
    /\ extractor = ExtractorOff
    /\ loader = LoaderOff
    /\ loadcfg = LoadCfgOff
    /\ locks = LocksOff
    /\ lookup = LookupOff
    /\ listcmp = ListCmpOff
    /\ \E a \in WhoisAnswers :
          dates = [pc |-> "idle", answer |-> a, result |-> NoDomainInfo]

\* checkDomain calls GetDomainInfoWithFallback; GetDomainInfo has the answer of the
\* query, or every attempt ran into the timeout (dates.result is the DomainInfo of the
\* last call that returned)
GetDomainInfoQuery ==
    /\ ~panicked
    /\ mon.pc = "cd_whois"
    /\ dates.pc = "idle"
    /\ dates' = IF dates.answer.kind = "timeout"
                THEN [dates EXCEPT !.pc = "done", !.result = NoDomainInfo]
                ELSE [dates EXCEPT !.pc = "parse"]
    /\ UNCHANGED << exporterVars, metrics, draftvars, resolver, queries, extractor, loader,
                    loadcfg, locks, lookup, listcmp >>

\* parseDomainInfo(domain, res.data)
parseDomainInfoAnswer ==
    /\ ~panicked
    /\ dates.pc = "parse"
    /\ dates' = [dates EXCEPT !.pc = "done",
                              !.result = IF dates.answer.kind = "invalid" THEN NoDomainInfo
                                         ELSE parseDomainInfoText(dates.answer.line)]
    /\ UNCHANGED << exporterVars, metrics, draftvars, resolver, queries, extractor, loader,
                    loadcfg, locks, lookup, listcmp >>

\* checkDomain has domainInfo, err back from GetDomainInfoWithFallback
checkDomainInfo ==
    /\ ~panicked
    /\ mon.pc = "cd_whois"
    /\ dates.pc = "done"
    /\ mon' = [mon EXCEPT !.pc = "cd_status",
                          !.info = IF dates.result.ok
                                   THEN [ok |-> TRUE, ExpiryDate |-> Unix(dates.result.t)]
                                   ELSE WhoisFailure]
    /\ dates' = [dates EXCEPT !.pc = "idle"]
    /\ UNCHANGED << config, initialCheckDone, mconfig, chans, metrics, ticker, watcher,
                    nacos, stopper, collected, panicked, nUpdates, nTriggers,
                    trigHist, cfgHist, passHist, draftvars, resolver, queries, extractor,
                    loader, loadcfg, locks, lookup, listcmp >>

EndToEndNext ==
    \/ StartMonitoring
    \/ checkAllDomainsBegin
    \/ checkDomainTime
    \/ GetDomainInfoQuery
    \/ parseDomainInfoAnswer
    \/ checkDomainInfo
    \/ checkDomainStatus
    \/ checkDomainDays
    \/ checkDomainExpiry
    \/ AfterInitialPass
    \/ NewTicker
    \/ Tick
    \/ SelectTick
    \/ AfterTickPass

\* The exporter with one domain, every check of it followed through the extraction.
SpecEndToEnd == InitEndToEnd /\ [][EndToEndNext]_vars

(***************************************************************************)
(* The configuration locks.  DomainExporter.mutex (e) and                  *)
(* NacosConfigManager.configMutex (c) are RWMutexes; the goroutines that   *)
(* take them are followed from lock to unlock: the monitoring loop, the    *)
(* watcher of configuration updates, the Nacos client (startup load and    *)
(* OnChange) and a scrape calling Collect.                                 *)
(***************************************************************************)
Goroutines == {"monitor", "watcher", "nacos", "scrape"}

FreeMutex == [w |-> "none", r |-> {}]

\* sync.RWMutex
CanLock(m) == m.w = "none" /\ m.r = {}
CanRLock(m) == m.w = "none"
Lock(m, g) == [m EXCEPT !.w = g]
Unlock(m, g) == [m EXCEPT !.w = "none"]
RLock(m, g) == [m EXCEPT !.r = @ \cup {g}]
\* a read lock that is not given back when the reader returns
RUnlockMissing(m, g) == m
RUnlock(m, g) == [m EXCEPT !.r = @ \ {g}]

\* the goroutine holds one of the locks
Holds(g) ==
    \/ locks.e.w = g \/ g \in locks.e.r
    \/ locks.c.w = g \/ g \in locks.c.r

\* the calls of getCurrentConfig in the monitoring loop: checkAllDomains, checkDomain,
\* and StartMonitoring reading the interval; and where each returns to
ConfigReads == {"cad_cfg", "cd_cfg", "interval_cfg"}
AfterConfigRead(pc) ==
    CASE pc = "cad_cfg" -> "cd_cfg"
      [] pc = "cd_cfg" -> "cd_whois"
      [] pc = "interval_cfg" -> "select"

\* what a goroutine is in the middle of
Activity(g, pc) ==
    CASE g = "monitor" /\ pc = "cd_whois" -> "whois"
      [] g = "monitor" /\ pc = "sleep" -> "sleep"
      [] g = "monitor" /\ pc = "select" -> "channel"
      [] g = "watcher" /\ pc = "select" -> "channel"
      [] g = "scrape" /\ pc = "sending" -> "channel"
      [] g = "nacos" /\ pc = "load_fetch" -> "network"
      [] OTHER -> "none"

\* the goroutine is between the lock and the unlock around a read or a replacement of
\* the configuration pointer
AtConfigAccess(g, pc) ==
    \/ g = "monitor" /\ pc = "cfg_locked"
    \/ g = "watcher" /\ pc = "locked"
    \/ g = "nacos" /\ pc = "locked"

\* the process has started: the monitoring goroutine enters its first pass, the manager
\* fetches the configuration
InitLocks ==
    /\ InitFields
    /\ mon = [MonitorStart EXCEPT !.pc = "off"]
    /\ nacos = [pc |-> "off", newConfig |-> NoConfig]
    /\ mconfig = LocalConfig /\ config = LocalConfig /\ updateChan = << >>
    /\ InitDraftOff
    /\ resolver = ResolverOff
    /\ queries = << >>
    /\ extractor = ExtractorOff
    /\ loader = LoaderOff
    /\ loadcfg = LoadCfgOff
    /\ dates = DatesOff
    /\ locks = [pc |-> [monitor |-> "cad_cfg", watcher |-> "select", nacos |-> "load_fetch",
                        scrape |-> "idle"],
                at |-> [monitor |-> "none", nacos |-> "none"],
                e |-> FreeMutex, c |-> FreeMutex]
    /\ lookup = LookupOff
    /\ listcmp = ListCmpOff

\* getCurrentConfig: e.mutex.RLock()
getCurrentConfigRLock ==
    /\ locks.pc["monitor"] \in ConfigReads
    /\ CanRLock(locks.e)
    /\ locks' = [locks EXCEPT !.pc["monitor"] = "cfg_locked",
                              !.at["monitor"] = locks.pc["monitor"],
                              !.e = RLock(@, "monitor")]
    /\ UNCHANGED << exporterVars, metrics, draftvars, resolver, queries, extractor, loader,
                    loadcfg, dates, lookup, listcmp >>

\* getCurrentConfig: return e.config, the deferred e.mutex.RUnlock() runs
getCurrentConfigReturn ==
    /\ locks.pc["monitor"] = "cfg_locked"
    /\ locks' = [locks EXCEPT !.pc["monitor"] = AfterConfigRead(locks.at["monitor"]),
                              !.at["monitor"] = "none",
                              !.e = RUnlock(@, "monitor")]
    /\ UNCHANGED << exporterVars, metrics, draftvars, resolver, queries, extractor, loader,
                    loadcfg, dates, lookup, listcmp >>

\* checkDomain: GetDomainInfoWithFallback returns and the series are set; then
\* checkAllDomains sleeps before the next domain, or the pass is over and
\* StartMonitoring reads the interval
checkDomainReturns ==
    /\ locks.pc["monitor"] = "cd_whois"
    /\ \E next \in {"sleep", "interval_cfg"} :
          locks' = [locks EXCEPT !.pc["monitor"] = next]
    /\ UNCHANGED << exporterVars, metrics, draftvars, resolver, queries, extractor, loader,
                    loadcfg, dates, lookup, listcmp >>

\* checkAllDomains: time.Sleep is over, the next domain is checked
checkAllDomainsWakes ==
    /\ locks.pc["monitor"] = "sleep"
    /\ locks' = [locks EXCEPT !.pc["monitor"] = "cd_cfg"]
    /\ UNCHANGED << exporterVars, metrics, draftvars, resolver, queries, extractor, loader,
                    loadcfg, dates, lookup, listcmp >>

\* StartMonitoring: the select receives a tick or a trigger and calls checkAllDomains
StartMonitoringSelects ==
    /\ locks.pc["monitor"] = "select"
    /\ locks' = [locks EXCEPT !.pc["monitor"] = "cad_cfg"]
    /\ UNCHANGED << exporterVars, metrics, draftvars, resolver, queries, extractor, loader,
                    loadcfg, dates, lookup, listcmp >>

\* watchConfigUpdates: a configuration arrives on updateChan; e.mutex.Lock()
watchConfigUpdatesLock ==
    /\ locks.pc["watcher"] = "select"
    /\ CanLock(locks.e)
    /\ locks' = [locks EXCEPT !.pc["watcher"] = "locked", !.e = Lock(@, "watcher")]
    /\ UNCHANGED << exporterVars, metrics, draftvars, resolver, queries, extractor, loader,
                    loadcfg, dates, lookup, listcmp >>

\* watchConfigUpdates: e.config = newConfig; e.mutex.Unlock()
watchConfigUpdatesUnlock ==
    /\ locks.pc["watcher"] = "locked"
    /\ locks' = [locks EXCEPT !.pc["watcher"] = "cleanup", !.e = Unlock(@, "watcher")]
    /\ UNCHANGED << exporterVars, metrics, draftvars, resolver, queries, extractor, loader,
                    loadcfg, dates, lookup, listcmp >>

\* watchConfigUpdates: the series of removed domains are deleted, the trigger is sent
\* without blocking, and the loop is back at its select
watchConfigUpdatesTrigger ==
    /\ locks.pc["watcher"] = "cleanup"
    /\ locks' = [locks EXCEPT !.pc["watcher"] = "select"]
    /\ UNCHANGED << exporterVars, metrics, draftvars, resolver, queries, extractor, loader,
                    loadcfg, dates, lookup, listcmp >>

\* loadConfigFromNacos: client.GetConfig has answered, or the client calls OnChange;
\* the payload is unmarshalled and completed
NacosBuildsConfig ==
    /\ locks.pc["nacos"] \in {"load_fetch", "idle"}
    /\ locks' = [locks EXCEPT !.pc["nacos"] = "build",
                              !.at["nacos"] = IF locks.pc["nacos"] = "idle"
                                              THEN "OnChange" ELSE "loadConfigFromNacos"]
    /\ UNCHANGED << exporterVars, metrics, draftvars, resolver, queries, extractor, loader,
                    loadcfg, dates, lookup, listcmp >>

\* m.configMutex.Lock()
NacosLock ==
    /\ locks.pc["nacos"] = "build"
    /\ CanLock(locks.c)
    /\ locks' = [locks EXCEPT !.pc["nacos"] = "locked", !.c = Lock(@, "nacos")]
    /\ UNCHANGED << exporterVars, metrics, draftvars, resolver, queries, extractor, loader,
                    loadcfg, dates, lookup, listcmp >>

\* m.config = &nacosConfig; m.configMutex.Unlock()
NacosUnlock ==
    /\ locks.pc["nacos"] = "locked"
    /\ locks' = [locks EXCEPT !.pc["nacos"] = "notify", !.c = Unlock(@, "nacos")]
    /\ UNCHANGED << exporterVars, metrics, draftvars, resolver, queries, extractor, loader,
                    loadcfg, dates, lookup, listcmp >>

\* the configuration is sent on updateChan without blocking
NacosNotifies ==
    /\ locks.pc["nacos"] = "notify"
    /\ locks' = [locks EXCEPT !.pc["nacos"] = "idle", !.at["nacos"] = "none"]
    /\ UNCHANGED << exporterVars, metrics, draftvars, resolver, queries, extractor, loader,
                    loadcfg, dates, lookup, listcmp >>

\* Collect: e.mutex.RLock(); the GaugeVecs send their series on the channel of the scrape
CollectRLock ==
    /\ locks.pc["scrape"] = "idle"
    /\ CanRLock(locks.e)
    /\ locks' = [locks EXCEPT !.pc["scrape"] = "sending", !.e = RLock(@, "scrape")]
    /\ UNCHANGED << exporterVars, metrics, draftvars, resolver, queries, extractor, loader,
                    loadcfg, dates, lookup, listcmp >>

\* Collect: the last series is taken; return, the deferred e.mutex.RUnlock() runs
CollectReturn ==
    /\ locks.pc["scrape"] = "sending"
    /\ locks' = [locks EXCEPT !.pc["scrape"] = "idle", !.e = RUnlock(@, "scrape")]
    /\ UNCHANGED << exporterVars, metrics, draftvars, resolver, queries, extractor, loader,
                    loadcfg, dates, lookup, listcmp >>

LocksNext ==
    \/ getCurrentConfigRLock
    \/ getCurrentConfigReturn
    \/ checkDomainReturns
    \/ checkAllDomainsWakes
    \/ StartMonitoringSelects
    \/ watchConfigUpdatesLock
    \/ watchConfigUpdatesUnlock
    \/ watchConfigUpdatesTrigger
    \/ NacosBuildsConfig
    \/ NacosLock
    \/ NacosUnlock
    \/ NacosNotifies
    \/ CollectRLock
    \/ CollectReturn

\* The goroutines of the exporter, from lock to unlock.
SpecLocks == InitLocks /\ [][LocksNext]_vars

(***************************************************************************)
(* GetDomainInfo: each call makes a context with the timeout, a result     *)
(* channel and a goroutine that runs whois.Whois and sends what it got on  *)
(* the channel; the caller waits in a select for the result or for the     *)
(* context to be done.  The retry wrapper calls it again after an error,   *)
(* while the goroutine of a call that timed out may still be running.      *)
(***************************************************************************)
\* number of calls of GetDomainInfo that are followed
MaxLookups == 2

\* resultChan := make(chan result, 1)
ResultChanCap == 1

\* what whois.Whois hands back: a record with an expiry date, text without one, an error
WhoisReturnValues == {"data", "nodate", "err"}

\* what the caller returns for a received result: the error of the query wrapped, or
\* what parseDomainInfo makes of the data
ResultOf(res) ==
    CASE res = "err"    -> "query_error"
      [] res = "nodate" -> "parse_error"
      [] OTHER          -> "info"

\* the call the caller is in, or was in last
CurLookup == lookup.calls[Len(lookup.calls)]

InitLookup ==
    /\ InitExporter
    /\ mconfig = LocalConfig /\ config = LocalConfig /\ updateChan = << >>
    /\ InitDraftOff
    /\ resolver = ResolverOff
    /\ queries = << >>
    /\ extractor = ExtractorOff
    /\ loader = LoaderOff
    /\ loadcfg = LoadCfgOff
    /\ dates = DatesOff
    /\ locks = LocksOff
    /\ lookup = [pc |-> "idle", ret |-> "none", calls |-> << >>]
    /\ listcmp = ListCmpOff

\* GetDomainInfo is entered: context.WithTimeout, make(chan result, 1), go func() {...}()
GetDomainInfoCall ==
    /\ lookup.pc = "idle"
    /\ Len(lookup.calls) < MaxLookups
    /\ lookup' = [pc |-> "select", ret |-> "none",
                  calls |-> Append(lookup.calls,
                                   [g |-> "whois", res |-> "none", chan |-> << >>,
                                    ctx |-> "live"])]
    /\ UNCHANGED << exporterVars, metrics, draftvars, resolver, queries, extractor, loader,
                    loadcfg, dates, locks, listcmp >>

\* goroutine: data, err := whois.Whois(domain) returns
WhoisReturns(k) ==
    /\ lookup.calls[k].g = "whois"
    /\ \E r \in WhoisReturnValues :
          lookup' = [lookup EXCEPT !.calls[k].g = "send", !.calls[k].res = r]
    /\ UNCHANGED << exporterVars, metrics, draftvars, resolver, queries, extractor, loader,
                    loadcfg, dates, locks, listcmp >>

\* a send on an unbuffered channel: it needs the receiver to be waiting in its select
ResultChanUnbuffered(call, receiving) == receiving
\* the send on resultChan can proceed: the buffer of the channel has room
ResultChanAccepts(call, receiving) == Len(call.chan) < ResultChanCap

\* goroutine: resultChan <- result{data: data, err: err}, and the goroutine ends
ResultSend(k) ==
    /\ lookup.calls[k].g = "send"
    /\ ResultChanAccepts(lookup.calls[k], lookup.pc = "select" /\ k = Len(lookup.calls))
    /\ lookup' = [lookup EXCEPT !.calls[k].g = "exited",
                                !.calls[k].chan = Append(@, lookup.calls[k].res)]
    /\ UNCHANGED << exporterVars, metrics, draftvars, resolver, queries, extractor, loader,
                    loadcfg, dates, locks, listcmp >>

\* the timeout of the context passes while the caller waits
ContextExpires ==
    /\ lookup.pc = "select"
    /\ CurLookup.ctx = "live"
    /\ lookup' = [lookup EXCEPT !.calls[Len(lookup.calls)].ctx = "expired"]
    /\ UNCHANGED << exporterVars, metrics, draftvars, resolver, queries, extractor, loader,
                    loadcfg, dates, locks, listcmp >>

\* case res := <-resultChan: the error of the query, or parseDomainInfo(domain, res.data)
SelectResult ==
    /\ lookup.pc = "select"
    /\ Len(CurLookup.chan) > 0
    /\ lookup' = [lookup EXCEPT !.pc = "returned", !.ret = ResultOf(Head(CurLookup.chan)),
                                !.calls[Len(lookup.calls)].chan = Tail(@)]
    /\ UNCHANGED << exporterVars, metrics, draftvars, resolver, queries, extractor, loader,
                    loadcfg, dates, locks, listcmp >>

\* case <-ctx.Done(): the timeout error
SelectDone ==
    /\ lookup.pc = "select"
    /\ CurLookup.ctx = "expired"
    /\ lookup' = [lookup EXCEPT !.pc = "returned", !.ret = "timeout"]
    /\ UNCHANGED << exporterVars, metrics, draftvars, resolver, queries, extractor, loader,
                    loadcfg, dates, locks, listcmp >>

\* the caller has the return value and goes on, to another attempt or another domain
GetDomainInfoReturn ==
    /\ lookup.pc = "returned"
    /\ lookup' = [lookup EXCEPT !.pc = "idle"]
    /\ UNCHANGED << exporterVars, metrics, draftvars, resolver, queries, extractor, loader,
                    loadcfg, dates, locks, listcmp >>

LookupNext ==
    \/ GetDomainInfoCall
    \/ \E k \in 1..Len(lookup.calls) : WhoisReturns(k)
    \/ \E k \in 1..Len(lookup.calls) : ResultSend(k)
    \/ ContextExpires
    \/ SelectResult
    \/ SelectDone
    \/ GetDomainInfoReturn

\* Calls of GetDomainInfo one after the other.  The timer of the context fires, and a
\* goroutine that can take a step does so in the end; nothing makes whois.Whois return.
SpecLookup ==
    /\ InitLookup
    /\ [][LookupNext]_vars
    /\ WF_vars(ContextExpires)
    /\ WF_vars(SelectResult \/ SelectDone)
    /\ WF_vars(\E k \in 1..Len(lookup.calls) : ResultSend(k))

(***************************************************************************)
(* checkDomainsChanged of the earlier draft: the consumer of configuration *)
(* updates calls it with a copy of the old domain list and the new list.   *)
(***************************************************************************)
\* length of the domain lists compared
MaxListLen == 3

RECURSIVE ListsOfLen(_)
\* the domain lists of a given length, duplicates included
ListsOfLen(n) ==
    IF n = 0 THEN { << >> }
    ELSE { Append(l, d) : l \in ListsOfLen(n - 1), d \in Domains }

DomainLists == UNION { ListsOfLen(n) : n \in 0..MaxListLen }

\* checkDomainsChanged: true when the lengths differ; else oldMap[domain] = true for
\* every old entry, and true at the first new entry that is not in oldMap; else false
checkDomainsChanged(oldDomains, newDomains) ==
    IF Len(oldDomains) # Len(newDomains) THEN TRUE
    ELSE LET oldMap == [d \in Domains |-> d \in Range(oldDomains)] IN
         \E k \in 1..Len(newDomains) : ~oldMap[newDomains[k]]

\* the consumer is about to compare the list it held with the list that arrived
InitListCmp ==
    /\ InitExporter
    /\ mconfig = LocalConfig /\ config = LocalConfig /\ updateChan = << >>
    /\ InitDraftOff
    /\ resolver = ResolverOff
    /\ queries = << >>
    /\ extractor = ExtractorOff
    /\ loader = LoaderOff
    /\ loadcfg = LoadCfgOff
    /\ dates = DatesOff
    /\ locks = LocksOff
    /\ lookup = LookupOff
    /\ \E o \in DomainLists, n \in DomainLists :
          listcmp = [pc |-> "call", oldDomains |-> o, newDomains |-> n, changed |-> FALSE]

\* domainsChanged := e.checkDomainsChanged(oldDomains, newConfig.Domains)
CallCheckDomainsChanged ==
    /\ listcmp.pc = "call"
    /\ listcmp' = [listcmp EXCEPT !.pc = "returned",
                      !.changed = checkDomainsChanged(listcmp.oldDomains, listcmp.newDomains)]
    /\ UNCHANGED << exporterVars, metrics, draftvars, resolver, queries, extractor, loader,
                    loadcfg, dates, locks, lookup >>

\* Calls of checkDomainsChanged on pairs of domain lists.
SpecListCmp == InitListCmp /\ [][CallCheckDomainsChanged]_vars

(***************************************************************************)
(* Properties.                                                             *)
(***************************************************************************)

\* C1: during a pass of the concurrent checkAllDomains over N domains with
\* MaxConcurrent = k, 1 <= k < N, the number of resolutions between taking and
\* releasing a semaphore slot never exceeds k.
C1_InFlightBounded == InFlight <= draft.MaxConcurrent

\* k resolutions are in flight while a further goroutine waits for a slot
C1_Witness ==
    /\ draft.MaxConcurrent = 2
    /\ InFlight = 2
    /\ \E w \in 1..Len(workers) : workers[w].pc = "started"

\* C2: trigger signals issued back-to-back before the loop takes the first of them
\* give one pass: every group of such signals is either one buffered signal or one
\* pass started from the trigger channel, never two.
C2_TriggerCoalescing ==
    /\ triggerChan <= 1
    /\ trigPasses + triggerChan = bursts

\* two signals were issued before the loop took one, and the one pass they gave is done
C2_Witness ==
    /\ served = 2
    /\ trigPasses = 1
    /\ mon.kind = "trigger" /\ mon.pc = "cad_done"
    /\ triggerChan = 0

\* C3: passes never overlap: whenever a pass is about to start, the pass before it
\* (cold start, tick or trigger) has returned from checkDomain for every domain of
\* the list it covers.
C3_PassesDoNotOverlap ==
    mon.pc = "cad_cfg" =>
        \/ mon.kind = "initial" /\ mon.cfg = NoConfig /\ passChecked = << >>
        \/ mon.kind # "initial" /\ mon.cfg # NoConfig /\ passChecked = mon.cfg.Domains

\* a tick pass is about to start after a trigger pass over two domains, a further
\* trigger waiting
C3_Witness ==
    /\ mon.pc = "cad_cfg" /\ mon.kind = "tick"
    /\ trigPasses > 0
    /\ Len(passChecked) = 2
    /\ triggerChan = 1

\* the four series of a domain as the last collection delivered them
Collected(d) ==
    [days |-> collected.days[d], expiry |-> collected.expiry[d],
     check |-> collected.check[d], status |-> collected.status[d]]

NoRecord == [days |-> NoSeries, expiry |-> NoSeries, check |-> NoSeries, status |-> NoSeries]

\* C4: metric retraction: a collection taken after watchConfigUpdates has processed
\* an update that drops domain d, while d is still out of the configuration, holds
\* none of the four series of d, also when a pass over the old list is running.
C4_RetractedSeriesAbsent ==
    \A d \in collected.retracted : Collected(d) = NoRecord

\* C5: once the configuration source has delivered its payloads and the consumer has
\* nothing left to do, getCurrentConfig is the last accepted configuration, the value
\* NacosConfigManager.GetConfig returns.
C5_CurrentIsLastAccepted ==
    (nacos.pc = "idle" /\ watcher.pc = "idle" /\ updateChan = << >>)
        => getCurrentConfig = mconfig

\* the configurations the source has accepted or can accept, each as a whole
AcceptedConfigs ==
    {LocalConfig} \cup { BuildConfig(p, LocalConfig) : p \in ValidPayloads }

\* C6: config swap atomicity: whatever a reader obtains from getCurrentConfig or
\* GetConfig, and whatever a pass obtained and still works on while an update is
\* applied, is one accepted configuration as a whole, never the domain list of one
\* with the interval or timeout of another.
C6_ConfigSwapAtomic ==
    /\ getCurrentConfig \in AcceptedConfigs
    /\ mconfig \in AcceptedConfigs
    /\ mon.cfg \in AcceptedConfigs \cup {NoConfig}
    /\ watcher.pc \in {"cleanup", "trigger"} =>
          /\ getCurrentConfig = watcher.newConfig
          /\ watcher.oldConfig \in AcceptedConfigs

\* an update with another domain list and interval has been swapped in while a pass
\* works on the old configuration
C6_Witness ==
    /\ watcher.pc = "cleanup"
    /\ mon.pc = "cd_whois"
    /\ mon.cfg = watcher.oldConfig
    /\ mon.cfg.Domains # getCurrentConfig.Domains
    /\ mon.cfg.CheckInterval # getCurrentConfig.CheckInterval

\* C7: every collection shows, for each domain, a whole record: status 1 with a
\* computed days value and a non-zero expiry timestamp, or status 0 with the
\* failure sentinel and no expiry; never fields of two different results.
C7_CollectedRecordsWhole ==
    \A d \in Domains :
        LET r == Collected(d) IN
          \/ r.status = NoSeries /\ r.days = NoSeries /\ r.expiry = NoSeries
          \/ r.status = << 1 >> /\ r.days \notin {NoSeries, << FailureDays >>}
                                /\ r.expiry \notin {NoSeries, << 0 >>}
          \/ r.status = << 0 >> /\ r.days = << FailureDays >> /\ r.expiry = << 0 >>

\* C8: a failed resolution never aborts the pass: when checkAllDomains leaves its
\* loop, checkDomain has returned for every domain of the list, the ones after a
\* failed domain included, and a domain that failed is recorded with status 0.
C8_FailureDoesNotAbortPass ==
    mon.pc = "cad_done" =>
        /\ passChecked = mon.cfg.Domains
        /\ \A d \in Range(passChecked) :
              lastResult[d] = "fail" => domainStatus[d] = << 0 >>

\* the first domain of a two-domain pass failed and the second was checked after it
C8_Witness ==
    /\ mon.pc = "cad_done"
    /\ Len(passChecked) = 2
    /\ lastResult[passChecked[1]] = "fail"
    /\ lastResult[passChecked[2]] = "ok"

C10_NoPassAfterStop ==
    [][(stopChan = "closed" /\ mon.pc = "select") => mon'.pc # "cad_cfg"]_vars

\* C11: after a trigger-initiated pass the timer is reset: when the loop returns to
\* its select after the trigger pass, no tick that fell due during the pass is left
\* to start a tick pass at once.
C11_NoStaleTickAfterTriggerPass ==
    [][(mon.pc = "cad_done" /\ mon.kind = "trigger" /\ mon'.pc = "select")
          => ticker'.C = 0]_vars

C13_NewListChecked ==
    ( /\ lateChange
      /\ nacos.pc = "idle" /\ watcher.pc = "idle" /\ updateChan = << >>
      /\ triggerChan = 0 /\ mon.pc = "select" )
        => mon.cfg.Domains = mconfig.Domains

\* C14: watchConfigUpdates places a trigger only once the cold-start pass has
\* returned, and the configuration loaded at startup causes no trigger at all: as
\* long as no change notification has been delivered, no trigger is issued and no
\* pass follows the cold-start pass but a tick pass.
C14_NoTriggerFromInitialLoad ==
    /\ bursts > 0 => initialCheckDone
    /\ nUpdates = 0 => (bursts = 0 /\ trigPasses = 0)

\* the servers the smart fallback has to query after the standard one, in order
BackupPlan == getPreferredWhoisServers(resolver.domain) \o resolver.servers

\* the queries of the current call that failed
FailedQueries == { k \in 1..Len(queries) : queries[k].outcome # "ok" }

C16_ParseErrorNotRetried ==
    \A j, k \in 1..Len(queries) :
        (j < k /\ queries[j].outcome = "parse") => queries[k].server # queries[j].server

C18_SanityWindow ==
    (extractor.pc = "done" /\ extractor.result.ok
        /\ extractor.via \in {"layout", "numeric", "structured"})
        => InWindow(extractor.result.ExpiryDate)

(***************************************************************************)
(* C19: an expiry that a special-case handler estimated (one year from     *)
(* now, after its WHOIS query failed) is returned with the method          *)
(* "estimated".                                                            *)
(***************************************************************************)
C19_EstimateTagged ==
    (extractor.pc = "done" /\ extractor.via = "estimated")
        => extractor.result.Method = "estimated"

(***************************************************************************)
(* C20: a failure of the external source never changes the live            *)
(* configuration.  While the source has only failed (at startup and in     *)
(* every change notification) the manager and the exporter hold the local  *)
(* configuration, nothing is on the update channel, no trigger has been    *)
(* sent and the process runs; and a change notification with empty or      *)
(* malformed content leaves the configurations, the update channel and the *)
(* trigger channel as they were.                                           *)
(***************************************************************************)
C20_FailuresKeepConfig ==
    /\ []((loader.pc = "watching" /\ loader.startup # "valid" /\ nUpdates = 0)
            => /\ mconfig = LocalConfig /\ config = LocalConfig
               /\ updateChan = << >> /\ triggerChan = 0
               /\ bursts = 0 /\ trigPasses = 0
               /\ nacos.pc = "idle" /\ ~panicked)
    /\ [][loader'.failures # loader.failures
            => /\ mconfig' = mconfig /\ config' = config
               /\ updateChan' = updateChan /\ triggerChan' = triggerChan
               /\ nacos' = nacos /\ ~panicked']_vars

\* the source failed at startup, a payload was accepted later, and the failure after it
\* left that configuration in place
C20_Witness ==
    /\ loader.startup \in {"fetch_error", "empty", "malformed"}
    /\ loader.failures > 0
    /\ loader.held # LocalConfig
    /\ mconfig = loader.held
    /\ initialCheckDone

\* the value the environment sets for a field, when it sets one
EnvSets(f) ==
    /\ loadcfg.env[f] # ""
    /\ f \in IntFields => Atoi(loadcfg.env[f]).ok

(***************************************************************************)
(* C21: a business parameter (domain list, check interval, timeout) set    *)
(* through the environment keeps its environment value in the live         *)
(* configuration after a payload of the external source has been applied.  *)
(***************************************************************************)
C21_EnvBeatsPayload ==
    (loadcfg.pc = "loaded" /\ loadcfg.applied > 0)
        => \A f \in BusinessFields :
              EnvSets(f) => loadcfg.live[f] = EnvValue(f, loadcfg.env[f])

(***************************************************************************)
(* C22: the connection parameters of the external source (URL, username,   *)
(* password, namespace, data id, group) in the live configuration are the  *)
(* ones LoadConfig produced, after any sequence of applied payloads.       *)
(***************************************************************************)
C22_ConnectionParametersKept ==
    loadcfg.pc = "loaded" => \A f \in ConnFields : loadcfg.live[f] = loadcfg.local[f]

\* two payloads that carry every connection field were applied
C22_Witness ==
    /\ loadcfg.pc = "loaded"
    /\ loadcfg.applied > 1
    /\ loadcfg.live["Domains"] = << "nacos-value" >>
    /\ loadcfg.live["LogLevel"] = "nacos-value"
    /\ loadcfg.live["Username"] = "env-value"

(***************************************************************************)
(* C23: in every configuration the orchestrator can get from               *)
(* getCurrentConfig (the one LoadConfig built or one with a payload        *)
(* applied) the check interval and the timeout are positive.               *)
(***************************************************************************)
C23_PositiveDurations ==
    loadcfg.pc = "loaded"
        => (loadcfg.live["CheckInterval"] > 0 /\ loadcfg.live["Timeout"] > 0)

\* the value LoadConfig has to give a field when "set" means: holds a value other
\* than the zero value of the field's type
PrecedenceValue(f, envSet) ==
    IF envSet THEN EnvValue(f, loadcfg.env[f])
    ELSE IF loadcfg.file # NoFile /\ loadcfg.file[f] # ZeroOf(f) THEN loadcfg.file[f]
    ELSE DefaultOf(f)

WithinPrecision(layout, t) == IF CarriesClock(layout) THEN t ELSE [t EXCEPT !.tod = 0]

\* C25: an instant inside the sanity window, written in any layout of an extractor's
\* list after a recognised expiry label and extracted again, comes back as the same
\* instant within the precision of the layout, the time of day included when the
\* layout carries it.
C25_DateRoundTrip ==
    (dates.pc = "done" /\ InWindow(dates.t.year))
        => /\ dates.result.ok
           /\ dates.result.t = WithinPrecision(dates.layout, dates.t)


\* the answer of the scenario: "Registry Expiry Date: 2030-08-13T04:00:00Z"
StandardAnswer ==
    [kind |-> "text",
     line |-> ExpiryLine(LabelRegistry, LayoutISOZ,
                         [year |-> 2030, month |-> 8, day |-> 13, tod |-> 4 * 3600])]

\* C24: with one domain configured and the WHOIS answer "Registry Expiry Date:
\* 2030-08-13T04:00:00Z", once the first pass is over the domain is recorded as
\* valid, its expiry time is exactly 2030-08-13T04:00:00Z (1912824000 in Unix
\* seconds), its remaining days are the whole days from now to that instant, and
\* the method of the resolution is the tag of the standard query.
C24_EndToEndSuccess ==
    (dates.answer = StandardAnswer /\ initialCheckDone)
        => /\ domainStatus["a.com"] = << 1 >>
           /\ domainExpiryTime["a.com"] = << 1912824000 >>
           /\ \E days \in 0..100000 :
                 /\ domainExpiryDays["a.com"] = << days >>
                 /\ days * SecondsPerDay <= 1912824000 - Now
                 /\ 1912824000 - Now < (days + 1) * SecondsPerDay
           /\ dates.result.ok /\ dates.result.Method = "whois"
           /\ \A d \in Domains \ {"a.com"} : domainStatus[d] = NoSeries

\* the first pass over the answer of the scenario is over and the loop waits in its
\* select
C24_Witness ==
    /\ dates.answer = StandardAnswer
    /\ initialCheckDone
    /\ mon.pc = "select"
    /\ domainStatus["a.com"] = << 1 >>


\* the goroutine holds no lock during a WHOIS query, a sleep or a wait on a channel,
\* and holds one only around a read or a replacement of the configuration
LockDiscipline(g) ==
    /\ Activity(g, locks.pc[g]) \in {"whois", "sleep", "channel"} => ~Holds(g)
    /\ Holds(g) => AtConfigAccess(g, locks.pc[g])

\* C26: neither the lock of the exporter nor the lock of the configuration manager
\* is held while a WHOIS query, a sleep or a wait on a channel is in progress; each is
\* held only for the read or the replacement of the configuration value.
C26_LocksOnlyAroundConfig == \A g \in Goroutines : LockDiscipline(g)

\* C26, amended: the same for the monitoring loop, the watcher of configuration
\* updates and the Nacos client; Collect is the exception, holding the read lock of the
\* exporter while it sends the series to the scrape.
C26_LocksOnlyAroundConfigButCollect == \A g \in Goroutines \ {"scrape"} : LockDiscipline(g)

\* a WHOIS query is in progress while the watcher replaces the configuration under the
\* write lock and the Nacos client holds the lock of the manager
C26_Witness ==
    /\ locks.pc["monitor"] = "cd_whois"
    /\ locks.e.w = "watcher"
    /\ locks.c.w = "nacos"


\* the senders of a trigger have their non-blocking send ready in every state they can
\* be in: TriggerCheck for a caller of /trigger, the watcher once it has swapped the
\* configuration
TriggerSendersNeverBlock ==
    /\ (~panicked /\ nTriggers < MaxTriggers) => ENABLED TriggerCheck
    /\ (~panicked /\ watcher.pc = "trigger") => ENABLED WatcherTrigger

\* C28: the trigger channel is a single-slot coalescing queue: at most one trigger is
\* pending, a trigger is accepted only when none is pending, and neither TriggerCheck
\* nor the trigger of a configuration change ever blocks, whether the loop is idle,
\* checking or stopped.
C28_SingleSlotTrigger ==
    /\ [](triggerChan \in {0, 1} /\ TriggerSendersNeverBlock)
    /\ [][triggerChan' > triggerChan => (triggerChan = 0 /\ triggerChan' = 1)]_vars

\* the loop has stopped with a trigger pending, and a further trigger was dropped
C28_Witness ==
    /\ mon.pc = "returned"
    /\ triggerChan = 1
    /\ unserved = 2


C30_EveryPassTerminates == (draft.pc = "spawn") ~> (draft.pc = "idle")


\* the loop of checkAllDomains is over its snapshot: between the snapshot and the return
InsidePass == mon.pc \in {"cd_time", "cd_whois", "cd_status", "cd_days", "cd_exp", "sleep"}

\* C31: in one pass each entry of the domain list snapshot taken at pass start is
\* resolved exactly once, in whatever way resolutions end and whatever configuration
\* arrives meanwhile: the entries checked so far are the first entries of the
\* snapshot, a resolution is made for the entry that follows them and is followed by
\* the return of its checkDomain, and the pass ends with the snapshot checked whole.
C31_EachEntryResolvedOnce ==
    /\ [](/\ InsidePass =>
               /\ mon.i \in 1..Len(mon.cfg.Domains)
               /\ passChecked = SubSeq(mon.cfg.Domains, 1, Len(passChecked))
               /\ Len(passChecked) = IF mon.pc = "sleep" THEN mon.i ELSE mon.i - 1
          /\ mon.pc = "cad_done" => passChecked = mon.cfg.Domains)
    /\ [][/\ (InsidePass /\ mon'.pc # "cad_cfg") => mon'.cfg = mon.cfg
          /\ (mon.pc = "cd_whois" /\ mon' # mon) =>
                (mon'.pc = "cd_status" /\ mon'.i = mon.i /\ passChecked' = passChecked)
          /\ (mon.pc # "cd_whois" /\ mon'.pc = "cd_whois") =>
                (mon.pc = "cd_time" /\ mon'.i = mon.i)
          /\ (InsidePass /\ passChecked' # passChecked) =>
                (mon.pc = "cd_exp" /\ passChecked' = Append(passChecked, CurDomain))]_vars

\* a pass is over in which a resolution failed, while the configuration that arrived
\* during it holds another domain list than the one the pass went through
C31_Witness ==
    /\ mon.pc = "cad_done"
    /\ Len(mon.cfg.Domains) = 2
    /\ passChecked = mon.cfg.Domains
    /\ config.Domains # mon.cfg.Domains
    /\ \E d \in Range(passChecked) : lastResult[d] = "fail"


\* C32: no send on the configuration update channel happens after it has been
\* closed: once Stop has closed the stop channel and, through Close, the update
\* channel, a change notification of the configuration source completes without a
\* panic, and so does the consumer loop receiving from the closed channel.
C32_NoSendAfterClose ==
    [][/\ (nacos.pc = "notify" /\ nacos'.pc = "idle") => (~updateClosed /\ ~panicked')
       /\ (updateClosed /\ watcher.pc = "idle" /\ watcher' # watcher) => ~panicked']_vars


\* the resolutions in flight: GetDomainInfoWithFallback called and not yet returned
ResolutionsInFlight ==
    (IF mon.pc = "cd_whois" THEN 1 ELSE 0)
      + Cardinality({ w \in 1..Len(workers) : workers[w].pc = "cd_whois" })

\* C33: in serial mode at most one domain resolution is in flight at any time, the
\* domains are checked in the order of the configuration's list, and checkAllDomains
\* pauses between two consecutive domains but not after the last one.
C33_SerialOrderedPaced ==
    /\ [](/\ ResolutionsInFlight <= 1
          /\ InsidePass => CurDomain = mon.cfg.Domains[Len(passChecked) +
                                           (IF mon.pc = "sleep" THEN 0 ELSE 1)]
          /\ mon.pc = "cad_done" => passChecked = mon.cfg.Domains)
    /\ [][/\ (mon.pc = "cd_exp" /\ mon' # mon) =>
                mon'.pc = IF mon.i < Len(mon.cfg.Domains) THEN "sleep" ELSE "cad_done"
          /\ (mon.pc = "sleep" /\ mon' # mon) => (mon'.pc = "cd_time" /\ mon'.i = mon.i + 1)
          /\ (mon.pc # "cd_time" /\ mon'.pc = "cd_time") =>
                (mon.pc = "sleep" \/ (mon.pc = "cad_cfg" /\ mon'.i = 1))]_vars

\* the pause between the first and the second domain of a list of two is under way
C33_Witness ==
    /\ mon.pc = "sleep"
    /\ mon.i = 1
    /\ mon.cfg.Domains = << "a.com", "b.org" >>
    /\ passChecked = << "a.com" >>


\* the tag of the strategy that queries the given server
MethodOf(server) == IF server = "standard" THEN << "whois" >> ELSE << "whois", server >>

\* C34: the resolution method of a result names the strategy that actually produced
\* it: the record a backup server s answers with becomes the result of the call,
\* tagged with s and with no other server, and a result of the standard query
\* carries the standard tag, whatever failed before.
C34_MethodNamesProducer ==
    (resolver.pc = "done" /\ Len(queries) > 0) =>
        /\ resolver.result.ok =>
              /\ queries[Len(queries)].answer = "ok"
              /\ resolver.result.method = MethodOf(queries[Len(queries)].server)
        /\ \A k \in 1..Len(queries) :
              queries[k].answer = "ok" => (k = Len(queries) /\ resolver.result.ok)


\* C35: GetDomainInfo returns within its timeout with either the result of the query
\* or a timeout error: what it returns is what the goroutine delivered or, once the
\* context has expired, the timeout error, the return is open to the caller as soon
\* as the context has expired, and the caller does return.  The goroutine that runs
\* the query never blocks on delivering its result: its send can always proceed and
\* the goroutine ends, also when the caller has returned on the timeout before.
C35_LookupBounded ==
    /\ [](lookup.pc = "returned" =>
             IF lookup.ret = "timeout" THEN CurLookup.ctx = "expired"
             ELSE CurLookup.g = "exited" /\ lookup.ret = ResultOf(CurLookup.res))
    /\ []((lookup.pc = "select" /\ CurLookup.ctx = "expired") => ENABLED SelectDone)
    /\ [](\A k \in 1..Len(lookup.calls) :
             lookup.calls[k].g = "send" => ENABLED ResultSend(k))
    /\ (lookup.pc = "select") ~> (lookup.pc = "returned")
    /\ \A k \in 1..MaxLookups :
          (Len(lookup.calls) >= k /\ lookup.calls[k].g = "send")
             ~> (Len(lookup.calls) >= k /\ lookup.calls[k].g = "exited")

\* the first call returned the timeout error, the caller is in its second call, and
\* the goroutine of the first call has delivered its result to nobody and ended
C35_Witness ==
    /\ Len(lookup.calls) = 2
    /\ lookup.pc = "select"
    /\ lookup.calls[1].ctx = "expired"
    /\ lookup.calls[1].g = "exited"
    /\ Len(lookup.calls[1].chan) = 1


\* the four series of a domain
SeriesOf(d) == << domainExpiryDays[d], domainExpiryTime[d], domainCheckTime[d],
                  domainStatus[d] >>

\* C36: cleanupMetricsForRemovedDomains deletes the metric series of exactly the
\* domains present in the old list and absent from the new list, and leaves the
\* series of every domain still configured (and of every other domain) as they are.
C36_CleanupExact ==
    [][(watcher.pc = "cleanup" /\ watcher'.pc # "cleanup") =>
          \A d \in Domains :
              IF /\ \E k \in 1..Len(watcher.oldConfig.Domains) : watcher.oldConfig.Domains[k] = d
                 /\ \A k \in 1..Len(watcher.newConfig.Domains) : watcher.newConfig.Domains[k] # d
              THEN SeriesOf(d)' = << NoSeries, NoSeries, NoSeries, NoSeries >>
              ELSE SeriesOf(d)' = SeriesOf(d)]_vars

\* a pass checked a.com and b.org, then a list without b.org arrived and the cleanup
\* has run: the series of b.org are gone, those of a.com are in place
C36_Witness ==
    /\ watcher.pc = "trigger"
    /\ watcher.oldConfig.Domains = << "a.com", "b.org" >>
    /\ watcher.newConfig.Domains = << "a.com" >>
    /\ passChecked = << "a.com", "b.org" >>
    /\ SeriesOf("b.org") = << NoSeries, NoSeries, NoSeries, NoSeries >>
    /\ \A k \in 1..4 : SeriesOf("a.com")[k] # NoSeries


\* the number of entries of a list that are the given domain
Multiplicity(d, list) == Cardinality({ k \in 1..Len(list) : list[k] = d })

\* C37: checkDomainsChanged returns true exactly when the old and the new domain list
\* differ in content: for all lists, duplicates allowed, it returns false only if both
\* lists hold the same domains with the same multiplicities (and then it does).
C37_ChangedIffContentDiffers ==
    listcmp.pc = "returned" =>
        (listcmp.changed <=>
            \E d \in Domains :
                Multiplicity(d, listcmp.oldDomains) # Multiplicity(d, listcmp.newDomains))

====
